---- MODULE Spec2Model ----
(***************************************************************************)
(* The escape-room game servers of MCP-Game as one state machine.          *)
(*                                                                         *)
(* The repository holds four server programs, each a separate process with *)
(* its own global game state:                                              *)
(*   "fastapi"      src/server/behind_bars_fastapi_server.py (auto-collect)*)
(*   "behind_bars"  src/server/behind_bars_server.py                       *)
(*   "game_server"  src/server/game_server.py        (three doors, JSON)   *)
(*   "server1"      src/server/server1.py            (three doors, text)   *)
(* A behaviour is the life of one such process: `server` is chosen in Init *)
(* and never changes.  Every tool handler is a pure operator from the game *)
(* state to the new game state and the response; one action per handler    *)
(* applies it, composes the room image and records the call.               *)
(***************************************************************************)
EXTENDS Integers, Sequences, FiniteSets, TLC

VARIABLES
    server,       \* which of the four server programs this process runs
    assets,       \* filenames that exist in the server's assets directory
    game_state,   \* the global game_state object of the server
    asset_cache,  \* composer.asset_cache: filename -> normalized image
    pre,          \* game_state as it was when the last call was received
    call,         \* the last tool call: [name, arg]
    response,     \* what the last tool call returned
    progress,     \* steps of Scenario matched by the calls since the start/reset
    client,       \* the client program driving the server, "none" without one
    pc,           \* where the client is in chat_loop / process_query
    user_input,   \* what the user typed at the last prompt
    query,        \* the query process_query is working on
    queries,      \* number of prompts answered by the user so far
    conversation_history,  \* MCPClient.conversation_history
    llm_response, \* the tool-selecting LLM's last reply
    tool_calls,   \* MCPClient: the tool_use blocks still to execute
    tool_call,    \* TwoLLMGameClient: what select_tool returned
    mcp_result,   \* what session.call_tool last delivered
    tool_result,  \* TwoLLMGameClient: what execute_tool returned
    issued        \* the tool calls sent to the server for the current query

server_vars == <<server, assets, game_state, asset_cache, pre, call, response, progress>>

client_vars ==
    <<client, pc, user_input, query, queries, conversation_history, llm_response,
      tool_calls, tool_call, mcp_result, tool_result, issued>>

vars == <<server_vars, client_vars>>

Servers == {"fastapi", "behind_bars", "game_server", "server1"}

BehindBars == {"fastapi", "behind_bars"}

(***************************************************************************)
(* Python helpers.                                                         *)
(***************************************************************************)
\* x in lst, for a Python list modelled as a sequence
In(x, lst) == \E i \in 1..Len(lst) : lst[i] = x

\* dict d with d[k] = v set
Put(d, k, v) == [x \in DOMAIN d \cup {k} |-> IF x = k THEN v ELSE d[x]]

\* key k of a response dict is present and holds v
Has(r, k, v) == k \in DOMAIN r /\ r[k] = v

NoArg == "-"

(***************************************************************************)
(* GameState of the two behind-bars servers.                               *)
(***************************************************************************)
GameState_init ==
    [door_opened |-> FALSE, rug_lifted |-> FALSE, key_taken |-> FALSE,
     safe_opened |-> FALSE, bolt_cutter_taken |-> FALSE, bars_cut |-> FALSE,
     escaped |-> FALSE, inventory |-> <<>>]

\* GameState.to_dict: every field, by name
to_dict(s) == s

\* a reset that forgets to empty the inventory
GameState_reset_keeps_inventory(s) == [GameState_init EXCEPT !.inventory = s.inventory]

\* GameState.reset of the FastAPI server: assigns every field
GameState_reset(s) ==
    [s EXCEPT !.door_opened = FALSE, !.rug_lifted = FALSE, !.key_taken = FALSE,
              !.safe_opened = FALSE, !.bolt_cutter_taken = FALSE,
              !.bars_cut = FALSE, !.escaped = FALSE, !.inventory = <<>>]

\* an auto-collect that does not look whether the item is visible
smart_inventory_check_any(s) ==
    LET s1 == IF ~s.key_taken
              THEN [s EXCEPT !.key_taken = TRUE, !.inventory = Append(@, "key")]
              ELSE s
        c1 == IF ~s.key_taken THEN <<"key">> ELSE <<>>
        s2 == IF ~s1.bolt_cutter_taken
              THEN [s1 EXCEPT !.bolt_cutter_taken = TRUE,
                              !.inventory = Append(@, "bolt_cutter")]
              ELSE s1
        c2 == IF ~s1.bolt_cutter_taken THEN Append(c1, "bolt_cutter") ELSE c1
    IN  [state |-> s2, collected |-> c2]

\* smart_inventory_check that does not test key_taken before collecting the key
smart_inventory_check_unguarded(s) ==
    LET s1 == IF s.rug_lifted
              THEN [s EXCEPT !.key_taken = TRUE, !.inventory = Append(@, "key")]
              ELSE s
        c1 == IF s.rug_lifted THEN <<"key">> ELSE <<>>
        s2 == IF s1.safe_opened /\ ~s1.bolt_cutter_taken
              THEN [s1 EXCEPT !.bolt_cutter_taken = TRUE,
                              !.inventory = Append(@, "bolt_cutter")]
              ELSE s1
        c2 == IF s1.safe_opened /\ ~s1.bolt_cutter_taken
              THEN Append(c1, "bolt_cutter") ELSE c1
    IN  [state |-> s2, collected |-> c2]

\* smart_inventory_check: collects the visible items; returns what it collected
smart_inventory_check(s) ==
    LET s1 == IF s.rug_lifted /\ ~s.key_taken
              THEN [s EXCEPT !.key_taken = TRUE, !.inventory = Append(@, "key")]
              ELSE s
        c1 == IF s.rug_lifted /\ ~s.key_taken THEN <<"key">> ELSE <<>>
        s2 == IF s1.safe_opened /\ ~s1.bolt_cutter_taken
              THEN [s1 EXCEPT !.bolt_cutter_taken = TRUE,
                              !.inventory = Append(@, "bolt_cutter")]
              ELSE s1
        c2 == IF s1.safe_opened /\ ~s1.bolt_cutter_taken
              THEN Append(c1, "bolt_cutter") ELSE c1
    IN  [state |-> s2, collected |-> c2]

(***************************************************************************)
(* Handlers of behind_bars_fastapi_server.py.  Each returns the new game   *)
(* state and the response dict without its "image" entry; WithState marks  *)
(* the responses that carry "state": game_state.to_dict().                 *)
(***************************************************************************)
WithState(s, r) == [state |-> s, resp |-> Put(r, "state", to_dict(s))]

Plain(s, r) == [state |-> s, resp |-> r]

\* open_door that reports the win whenever the door is already open
fa_open_door_always_won(s) ==
    IF s.door_opened
    THEN Plain(s, [success |-> TRUE,
                message |-> "The door is already open, and you've cut through the bars. Freedom awaits!",
                won |-> TRUE])
    ELSE WithState([s EXCEPT !.door_opened = TRUE], [success |-> TRUE,
                message |-> "You open the door, but your heart sinks. Thick metal bars block your escape! You'll need to find another way through."])

fa_open_door(s) ==
    IF s.door_opened
    THEN IF s.bars_cut
         THEN Plain(s, [success |-> TRUE,
                message |-> "The door is already open, and you've cut through the bars. Freedom awaits!",
                won |-> TRUE])
         ELSE Plain(s, [success |-> TRUE,
                message |-> "The door is already open, but metal bars block your path."])
    ELSE WithState([s EXCEPT !.door_opened = TRUE], [success |-> TRUE,
                message |-> "You open the door, but your heart sinks. Thick metal bars block your escape! You'll need to find another way through."])

fa_look_under_rug(s) ==
    IF s.rug_lifted
    THEN IF s.key_taken
         THEN Plain(s, [success |-> TRUE,
                message |-> "You've already taken the key from here."])
         ELSE Plain(s, [success |-> TRUE,
                message |-> "The rug is lifted, revealing the key underneath."])
    ELSE WithState([s EXCEPT !.rug_lifted = TRUE], [success |-> TRUE,
                message |-> "You lift the corner of the rug and discover a small brass key hidden underneath!"])

\* take_key that answers a repeated call with success, as open_door does
fa_take_key_repeat_ok(s) ==
    IF s.key_taken
    THEN Plain(s, [success |-> TRUE, message |-> "You already have the key."])
    ELSE IF ~s.rug_lifted
    THEN Plain(s, [success |-> FALSE,
                message |-> "You don't see any key. Maybe you should look under the rug first?"])
    ELSE WithState([s EXCEPT !.key_taken = TRUE, !.inventory = Append(@, "key")],
               [success |-> TRUE,
                message |-> "You pick up the brass key. It feels solid and well-made."])

fa_take_key(s) ==
    IF s.key_taken
    THEN Plain(s, [success |-> FALSE, message |-> "You already have the key."])
    ELSE IF ~s.rug_lifted
    THEN Plain(s, [success |-> FALSE,
                message |-> "You don't see any key. Maybe you should look under the rug first?"])
    ELSE WithState([s EXCEPT !.key_taken = TRUE, !.inventory = Append(@, "key")],
               [success |-> TRUE,
                message |-> "You pick up the brass key. It feels solid and well-made."])

\* open_safe that does not tell an auto-collected key from a held one
fa_open_safe_same_message(s) ==
    IF s.safe_opened
    THEN IF s.bolt_cutter_taken
         THEN Plain(s, [success |-> TRUE, message |-> "The safe is already open and empty."])
         ELSE Plain(s, [success |-> TRUE,
                message |-> "The safe is already open, revealing a heavy-duty bolt cutter inside."])
    ELSE LET c == smart_inventory_check(s) IN
         IF ~In("key", c.state.inventory)
         THEN Plain(c.state, [success |-> FALSE, message |-> "The safe is locked."])
         ELSE WithState([c.state EXCEPT !.safe_opened = TRUE], [success |-> TRUE,
                message |-> "You insert the key into the safe's lock. It turns smoothly! The safe opens with a satisfying click, revealing a heavy-duty bolt cutter inside."])

fa_open_safe(s) ==
    IF s.safe_opened
    THEN IF s.bolt_cutter_taken
         THEN Plain(s, [success |-> TRUE, message |-> "The safe is already open and empty."])
         ELSE Plain(s, [success |-> TRUE,
                message |-> "The safe is already open, revealing a heavy-duty bolt cutter inside."])
    ELSE LET c == smart_inventory_check(s) IN
         IF ~In("key", c.state.inventory)
         THEN Plain(c.state, [success |-> FALSE, message |-> "The safe is locked."])
         ELSE WithState([c.state EXCEPT !.safe_opened = TRUE], [success |-> TRUE,
                message |-> IF In("key", c.collected)
                            THEN "You grab the key from under the rug and use it on the safe. It turns smoothly! The safe opens with a satisfying click, revealing a heavy-duty bolt cutter inside."
                            ELSE "You insert the key into the safe's lock. It turns smoothly! The safe opens with a satisfying click, revealing a heavy-duty bolt cutter inside."])

fa_take_bolt_cutter(s) ==
    IF s.bolt_cutter_taken
    THEN Plain(s, [success |-> FALSE, message |-> "You already have the bolt cutter."])
    ELSE IF ~s.safe_opened
    THEN Plain(s, [success |-> FALSE, message |-> "The safe is locked."])
    ELSE WithState([s EXCEPT !.bolt_cutter_taken = TRUE,
                             !.inventory = Append(@, "bolt_cutter")],
               [success |-> TRUE,
                message |-> "You lift the heavy bolt cutter from the safe. Its weight feels reassuring."])

\* cut_bars that collects nothing, as in behind_bars_server.py
fa_cut_bars_no_collect(s) ==
    IF s.bars_cut
    THEN Plain(s, [success |-> TRUE,
                message |-> "You've already cut through the bars. The path to freedom is clear!",
                won |-> TRUE])
    ELSE IF ~s.door_opened
    THEN Plain(s, [success |-> FALSE,
                message |-> "You need to open the door first to see the bars."])
    ELSE LET c == [state |-> s, collected |-> <<>>] IN
         IF ~In("bolt_cutter", c.state.inventory)
         THEN Plain(c.state, [success |-> FALSE,
                message |-> "You don't have anything to cut the bars with."])
         ELSE WithState([c.state EXCEPT !.bars_cut = TRUE, !.escaped = TRUE],
               [success |-> TRUE,
                message |-> IF In("bolt_cutter", c.collected)
                            THEN "You grab the bolt cutter from the safe and immediately put it to work on the metal bars. SNAP! The bars give way with a satisfying crack. You've created an opening large enough to escape through. Freedom at last!"
                            ELSE "You position the bolt cutter on the metal bars and squeeze with all your might. SNAP! The bars give way with a satisfying crack. You've created an opening large enough to escape through. Freedom at last!",
                won |-> TRUE])

fa_cut_bars(s) ==
    IF s.bars_cut
    THEN Plain(s, [success |-> TRUE,
                message |-> "You've already cut through the bars. The path to freedom is clear!",
                won |-> TRUE])
    ELSE IF ~s.door_opened
    THEN Plain(s, [success |-> FALSE,
                message |-> "You need to open the door first to see the bars."])
    ELSE LET c == smart_inventory_check(s) IN
         IF ~In("bolt_cutter", c.state.inventory)
         THEN Plain(c.state, [success |-> FALSE,
                message |-> "You don't have anything to cut the bars with."])
         ELSE WithState([c.state EXCEPT !.bars_cut = TRUE, !.escaped = TRUE],
               [success |-> TRUE,
                message |-> IF In("bolt_cutter", c.collected)
                            THEN "You grab the bolt cutter from the safe and immediately put it to work on the metal bars. SNAP! The bars give way with a satisfying crack. You've created an opening large enough to escape through. Freedom at last!"
                            ELSE "You position the bolt cutter on the metal bars and squeeze with all your might. SNAP! The bars give way with a satisfying crack. You've created an opening large enough to escape through. Freedom at last!",
                won |-> TRUE])

fa_use_key_on_door(s) ==
    LET c == smart_inventory_check(s) IN
    IF ~In("key", c.state.inventory)
    THEN Plain(c.state, [success |-> FALSE, message |-> "You don't have a key yet."])
    ELSE Plain(c.state, [success |-> FALSE,
                message |-> IF In("key", c.collected)
                            THEN "You grab the key from under the rug and try it on the door, but it's much too small for the heavy lock."
                            ELSE "The small brass key doesn't fit the door's heavy lock. It's much too small."])

fa_use_bolt_cutter_on_door(s) ==
    LET c == smart_inventory_check(s) IN
    IF ~In("bolt_cutter", c.state.inventory)
    THEN Plain(c.state, [success |-> FALSE, message |-> "You don't have a bolt cutter."])
    ELSE IF ~c.state.door_opened
    THEN Plain(c.state, [success |-> FALSE,
                message |-> IF In("bolt_cutter", c.collected)
                            THEN "You grab the bolt cutter from the safe and try to use it on the closed door, but it's solid material. Maybe you should open the door first to see what's behind it?"
                            ELSE "You try to use the bolt cutter on the closed door, but it's solid material. Maybe you should open the door first to see what's behind it?"])
    ELSE Plain(c.state, [success |-> FALSE,
                message |-> IF In("bolt_cutter", c.collected)
                            THEN "You grab the bolt cutter from the safe, but it's not meant for the door itself. However, you notice those metal bars blocking your path - maybe the cutter would work on those?"
                            ELSE "The bolt cutter isn't meant for the door itself. But you notice those metal bars blocking your path - maybe the cutter would work on those?"])

\* give_hint that runs the auto-collect before choosing its hint
fa_give_hint_collects(s) ==
    Plain(smart_inventory_check(s).state, [success |-> TRUE, message |->
        IF ~s.door_opened /\ ~s.rug_lifted
        THEN "You're in an unfamiliar room. Try exploring what you can see - maybe start with that door or check around the floor."
        ELSE IF ~s.door_opened /\ s.rug_lifted /\ ~s.key_taken
        THEN "You've discovered something interesting under the rug! Maybe pick it up, then see what's behind that door."
        ELSE IF ~s.door_opened /\ s.key_taken
        THEN "You have a key, but what's behind that door? Better open it and see what you're dealing with."
        ELSE IF s.door_opened /\ ~s.rug_lifted
        THEN "The door reveals your challenge, but you'll need tools to solve it. Search the room thoroughly - check under things."
        ELSE IF s.door_opened /\ s.rug_lifted /\ ~s.key_taken
        THEN "You can see both your obstacle and a potential solution. Pick up what you found and see what it opens."
        ELSE IF s.door_opened /\ s.key_taken /\ ~s.safe_opened
        THEN "The bars block your exit, but that key must open something in this room. What else has a lock?"
        ELSE IF s.safe_opened /\ ~s.bolt_cutter_taken
        THEN "The safe revealed exactly what you need! Take that tool - it looks perfect for your problem."
        ELSE IF s.bolt_cutter_taken /\ ~s.bars_cut
        THEN "You have the perfect tool for those metal bars blocking your escape. Time to put it to work!"
        ELSE IF ~s.door_opened /\ s.safe_opened
        THEN "You have a powerful tool now. Maybe see what's behind that door - you might need to cut through something."
        ELSE IF s.bars_cut
        THEN "You've already found your way to freedom! The path is clear."
        ELSE IF ~s.door_opened
        THEN "Start by opening that door to see what you're up against."
        ELSE IF ~s.rug_lifted
        THEN "Search the room carefully. Check under anything that looks moveable."
        ELSE IF ~s.key_taken
        THEN "You found something useful - make sure to pick it up!"
        ELSE IF ~s.safe_opened
        THEN "That key must fit somewhere in this room. Look for something else that's locked."
        ELSE IF ~s.bolt_cutter_taken
        THEN "Take that tool from the safe - you're going to need it!"
        ELSE "You have everything you need. Use your tool on what's blocking your escape!"])

\* give_hint that looks at the bolt cutter before it looks at the door
fa_give_hint_tool_first(s) ==
    Plain(s, [success |-> TRUE, message |->
        IF ~s.door_opened /\ ~s.rug_lifted
        THEN "You're in an unfamiliar room. Try exploring what you can see - maybe start with that door or check around the floor."
        ELSE IF ~s.door_opened /\ s.rug_lifted /\ ~s.key_taken
        THEN "You've discovered something interesting under the rug! Maybe pick it up, then see what's behind that door."
        ELSE IF s.bolt_cutter_taken /\ ~s.bars_cut
        THEN "You have the perfect tool for those metal bars blocking your escape. Time to put it to work!"
        ELSE IF ~s.door_opened /\ s.key_taken
        THEN "You have a key, but what's behind that door? Better open it and see what you're dealing with."
        ELSE IF s.door_opened /\ ~s.rug_lifted
        THEN "The door reveals your challenge, but you'll need tools to solve it. Search the room thoroughly - check under things."
        ELSE IF s.door_opened /\ s.rug_lifted /\ ~s.key_taken
        THEN "You can see both your obstacle and a potential solution. Pick up what you found and see what it opens."
        ELSE IF s.door_opened /\ s.key_taken /\ ~s.safe_opened
        THEN "The bars block your exit, but that key must open something in this room. What else has a lock?"
        ELSE IF s.safe_opened /\ ~s.bolt_cutter_taken
        THEN "The safe revealed exactly what you need! Take that tool - it looks perfect for your problem."
        ELSE IF ~s.door_opened /\ s.safe_opened
        THEN "You have a powerful tool now. Maybe see what's behind that door - you might need to cut through something."
        ELSE IF s.bars_cut
        THEN "You've already found your way to freedom! The path is clear."
        ELSE IF ~s.door_opened
        THEN "Start by opening that door to see what you're up against."
        ELSE IF ~s.rug_lifted
        THEN "Search the room carefully. Check under anything that looks moveable."
        ELSE IF ~s.key_taken
        THEN "You found something useful - make sure to pick it up!"
        ELSE IF ~s.safe_opened
        THEN "That key must fit somewhere in this room. Look for something else that's locked."
        ELSE IF ~s.bolt_cutter_taken
        THEN "Take that tool from the safe - you're going to need it!"
        ELSE "You have everything you need. Use your tool on what's blocking your escape!"])

fa_give_hint(s) ==
    Plain(s, [success |-> TRUE, message |->
        IF ~s.door_opened /\ ~s.rug_lifted
        THEN "You're in an unfamiliar room. Try exploring what you can see - maybe start with that door or check around the floor."
        ELSE IF ~s.door_opened /\ s.rug_lifted /\ ~s.key_taken
        THEN "You've discovered something interesting under the rug! Maybe pick it up, then see what's behind that door."
        ELSE IF ~s.door_opened /\ s.key_taken
        THEN "You have a key, but what's behind that door? Better open it and see what you're dealing with."
        ELSE IF s.door_opened /\ ~s.rug_lifted
        THEN "The door reveals your challenge, but you'll need tools to solve it. Search the room thoroughly - check under things."
        ELSE IF s.door_opened /\ s.rug_lifted /\ ~s.key_taken
        THEN "You can see both your obstacle and a potential solution. Pick up what you found and see what it opens."
        ELSE IF s.door_opened /\ s.key_taken /\ ~s.safe_opened
        THEN "The bars block your exit, but that key must open something in this room. What else has a lock?"
        ELSE IF s.safe_opened /\ ~s.bolt_cutter_taken
        THEN "The safe revealed exactly what you need! Take that tool - it looks perfect for your problem."
        ELSE IF s.bolt_cutter_taken /\ ~s.bars_cut
        THEN "You have the perfect tool for those metal bars blocking your escape. Time to put it to work!"
        ELSE IF ~s.door_opened /\ s.safe_opened
        THEN "You have a powerful tool now. Maybe see what's behind that door - you might need to cut through something."
        ELSE IF s.bars_cut
        THEN "You've already found your way to freedom! The path is clear."
        ELSE IF ~s.door_opened
        THEN "Start by opening that door to see what you're up against."
        ELSE IF ~s.rug_lifted
        THEN "Search the room carefully. Check under anything that looks moveable."
        ELSE IF ~s.key_taken
        THEN "You found something useful - make sure to pick it up!"
        ELSE IF ~s.safe_opened
        THEN "That key must fit somewhere in this room. Look for something else that's locked."
        ELSE IF ~s.bolt_cutter_taken
        THEN "Take that tool from the safe - you're going to need it!"
        ELSE "You have everything you need. Use your tool on what's blocking your escape!"])

\* impossible_action(input): reads input.action (for the log), changes nothing
fa_impossible_action(s, action) ==
    Plain(s, [success |-> FALSE, message |-> "That's not possible right now."])

fa_reset_game(s) ==
    WithState(GameState_reset(s), [success |-> TRUE,
                message |-> "The game has been reset. You are back in the initial room."])

\* the keys of action_map in multiple_actions
action_map ==
    {"open_door", "look_under_rug", "take_key", "open_safe", "take_bolt_cutter",
     "cut_bars", "use_key_on_door", "use_bolt_cutter_on_door", "give_hint",
     "impossible_action", "reset_game"}

\* what a handler that raised leaves behind: no response dict, only the exception
Raised(s, exc) == [state |-> s, resp |-> [raised |-> exc]]

\* multiple_actions with a slip in action_map: use_bolt_cutter_on_door -> cut_bars
fa_multiple_actions_wrong_map(s, primary_action) ==
    LET r == IF primary_action \in action_map
             THEN CASE primary_action = "open_door" -> fa_open_door(s)
                    [] primary_action = "look_under_rug" -> fa_look_under_rug(s)
                    [] primary_action = "take_key" -> fa_take_key(s)
                    [] primary_action = "open_safe" -> fa_open_safe(s)
                    [] primary_action = "take_bolt_cutter" -> fa_take_bolt_cutter(s)
                    [] primary_action = "cut_bars" -> fa_cut_bars(s)
                    [] primary_action = "use_key_on_door" -> fa_use_key_on_door(s)
                    [] primary_action = "use_bolt_cutter_on_door" -> fa_cut_bars(s)
                    [] primary_action = "give_hint" -> fa_give_hint(s)
                    [] primary_action = "impossible_action" -> Raised(s, "AttributeError")
                    [] primary_action = "reset_game" -> fa_reset_game(s)
             ELSE fa_impossible_action(s, primary_action)
    IN  IF "raised" \in DOMAIN r.resp
        THEN r
        ELSE [state |-> r.state,
              resp |-> Put(r.resp, "message",
                  "MULTIPLE_ACTIONS_DETECTED: We can only do one thing at a time. I executed '"
                  \o primary_action \o "' first. RESULT: " \o r.resp.message)]

\* multiple_actions that builds a new result from success and message only
fa_multiple_actions_drops_won(s, primary_action) ==
    LET r == IF primary_action \in action_map
             THEN CASE primary_action = "open_door" -> fa_open_door(s)
                    [] primary_action = "look_under_rug" -> fa_look_under_rug(s)
                    [] primary_action = "take_key" -> fa_take_key(s)
                    [] primary_action = "open_safe" -> fa_open_safe(s)
                    [] primary_action = "take_bolt_cutter" -> fa_take_bolt_cutter(s)
                    [] primary_action = "cut_bars" -> fa_cut_bars(s)
                    [] primary_action = "use_key_on_door" -> fa_use_key_on_door(s)
                    [] primary_action = "use_bolt_cutter_on_door" -> fa_use_bolt_cutter_on_door(s)
                    [] primary_action = "give_hint" -> fa_give_hint(s)
                    [] primary_action = "impossible_action" -> Raised(s, "AttributeError")
                    [] primary_action = "reset_game" -> fa_reset_game(s)
             ELSE fa_impossible_action(s, primary_action)
    IN  IF "raised" \in DOMAIN r.resp
        THEN r
        ELSE [state |-> r.state,
              resp |-> [success |-> r.resp.success, message |->
                  "MULTIPLE_ACTIONS_DETECTED: We can only do one thing at a time. I executed '"
                  \o primary_action \o "' first. RESULT: " \o r.resp.message]]

\* multiple_actions: runs the mapped handler and prefixes its message.  The
\* mapped "impossible_action" is called with the MultipleActionsInput object,
\* which has no attribute `action`: reading input.action raises.
fa_multiple_actions(s, primary_action) ==
    LET r == IF primary_action \in action_map
             THEN CASE primary_action = "open_door" -> fa_open_door(s)
                    [] primary_action = "look_under_rug" -> fa_look_under_rug(s)
                    [] primary_action = "take_key" -> fa_take_key(s)
                    [] primary_action = "open_safe" -> fa_open_safe(s)
                    [] primary_action = "take_bolt_cutter" -> fa_take_bolt_cutter(s)
                    [] primary_action = "cut_bars" -> fa_cut_bars(s)
                    [] primary_action = "use_key_on_door" -> fa_use_key_on_door(s)
                    [] primary_action = "use_bolt_cutter_on_door" -> fa_use_bolt_cutter_on_door(s)
                    [] primary_action = "give_hint" -> fa_give_hint(s)
                    [] primary_action = "impossible_action" -> Raised(s, "AttributeError")
                    [] primary_action = "reset_game" -> fa_reset_game(s)
             ELSE fa_impossible_action(s, primary_action)
    IN  IF "raised" \in DOMAIN r.resp
        THEN r
        ELSE [state |-> r.state,
              resp |-> Put(r.resp, "message",
                  "MULTIPLE_ACTIONS_DETECTED: We can only do one thing at a time. I executed '"
                  \o primary_action \o "' first. RESULT: " \o r.resp.message)]

(***************************************************************************)
(* Handlers of behind_bars_server.py (no auto-collect).                    *)
(***************************************************************************)
bb_open_door(s) ==
    IF s.door_opened
    THEN IF s.bars_cut
         THEN Plain(s, [success |-> TRUE,
                message |-> "The door is already open, and you've cut through the bars. Freedom awaits!"])
         ELSE Plain(s, [success |-> TRUE,
                message |-> "The door is already open, but metal bars block your path."])
    ELSE WithState([s EXCEPT !.door_opened = TRUE], [success |-> TRUE,
                message |-> "You open the door, but your heart sinks. Thick metal bars block your escape! You'll need to find another way through."])

bb_look_under_rug(s) ==
    IF s.rug_lifted
    THEN IF s.key_taken
         THEN Plain(s, [success |-> TRUE,
                message |-> "You've already lifted the rug and taken the key from underneath."])
         ELSE Plain(s, [success |-> TRUE,
                message |-> "The rug is lifted, revealing the key underneath."])
    ELSE WithState([s EXCEPT !.rug_lifted = TRUE], [success |-> TRUE,
                message |-> "You lift the corner of the rug and discover a small brass key hidden underneath!"])

bb_take_key(s) ==
    IF s.key_taken
    THEN Plain(s, [success |-> FALSE, message |-> "You already have the key."])
    ELSE IF ~s.rug_lifted
    THEN Plain(s, [success |-> FALSE,
                message |-> "You don't see any key. Maybe you should look under the rug first?"])
    ELSE WithState([s EXCEPT !.key_taken = TRUE, !.inventory = Append(@, "key")],
               [success |-> TRUE,
                message |-> "You pick up the brass key. It feels solid and well-made."])

\* take_bolt_cutter that stores the item under another name
bb_take_bolt_cutter_typo(s) ==
    IF s.bolt_cutter_taken
    THEN Plain(s, [success |-> FALSE, message |-> "You already have the bolt cutter."])
    ELSE IF ~s.safe_opened
    THEN Plain(s, [success |-> FALSE, message |-> "The safe is locked. "])
    ELSE WithState([s EXCEPT !.bolt_cutter_taken = TRUE,
                             !.inventory = Append(@, "bolt cutter")],
               [success |-> TRUE,
                message |-> "You lift the heavy bolt cutter from the safe. Its weight feels reassuring."])

bb_take_bolt_cutter(s) ==
    IF s.bolt_cutter_taken
    THEN Plain(s, [success |-> FALSE, message |-> "You already have the bolt cutter."])
    ELSE IF ~s.safe_opened
    THEN Plain(s, [success |-> FALSE, message |-> "The safe is locked. "])
    ELSE WithState([s EXCEPT !.bolt_cutter_taken = TRUE,
                             !.inventory = Append(@, "bolt_cutter")],
               [success |-> TRUE,
                message |-> "You lift the heavy bolt cutter from the safe. Its weight feels reassuring."])

\* open_safe without the test for the key
bb_open_safe_unlocked(s) ==
    IF s.safe_opened
    THEN IF s.bolt_cutter_taken
         THEN Plain(s, [success |-> TRUE,
                message |-> "The safe is already open and empty. You've taken the bolt cutter."])
         ELSE bb_take_bolt_cutter(s)
    ELSE WithState([s EXCEPT !.safe_opened = TRUE], [success |-> TRUE,
                message |-> "You insert the key into the safe's lock. It turns smoothly! The safe opens with a satisfying click, revealing a heavy-duty bolt cutter inside."])

\* open_safe: with the safe open and the bolt cutter still inside it returns
\* take_bolt_cutter() (line 285)
bb_open_safe(s) ==
    IF s.safe_opened
    THEN IF s.bolt_cutter_taken
         THEN Plain(s, [success |-> TRUE,
                message |-> "The safe is already open and empty. You've taken the bolt cutter."])
         ELSE bb_take_bolt_cutter(s)
    ELSE IF ~In("key", s.inventory)
    THEN Plain(s, [success |-> FALSE, message |-> "The safe is locked."])
    ELSE WithState([s EXCEPT !.safe_opened = TRUE], [success |-> TRUE,
                message |-> "You insert the key into the safe's lock. It turns smoothly! The safe opens with a satisfying click, revealing a heavy-duty bolt cutter inside."])

bb_cut_bars(s) ==
    IF s.bars_cut
    THEN Plain(s, [success |-> TRUE,
                message |-> "You've already cut through the bars. The path to freedom is clear!",
                won |-> TRUE])
    ELSE IF ~s.door_opened
    THEN Plain(s, [success |-> FALSE,
                message |-> "You need to open the door first to see the bars."])
    ELSE IF ~In("bolt_cutter", s.inventory)
    THEN Plain(s, [success |-> FALSE,
                message |-> "You don't have anything to cut the bars with."])
    ELSE WithState([s EXCEPT !.bars_cut = TRUE, !.escaped = TRUE], [success |-> TRUE,
                message |-> "You position the bolt cutter on the metal bars and squeeze with all your might. SNAP! The bars give way with a satisfying crack. You've created an opening large enough to escape through. Freedom at last!",
                won |-> TRUE])

\* sep.join(lst) for a list of strings
RECURSIVE join(_, _)
join(sep, lst) ==
    IF Len(lst) = 0 THEN ""
    ELSE IF Len(lst) = 1 THEN lst[1]
    ELSE lst[1] \o sep \o join(sep, Tail(lst))

\* describe_room: the description is built piecewise and stripped; "won" is
\* always present and holds game_state.escaped
bb_describe_room(s) ==
    LET door == IF s.door_opened
                THEN IF s.bars_cut
                     THEN "The door is open and you've cut through the metal bars - your escape route is clear! "
                     ELSE "The door is open, but thick metal bars block your path. "
                ELSE "A heavy door dominates one wall. "
        rug  == IF s.rug_lifted
                THEN IF s.key_taken
                     THEN "The rug is lifted in one corner, revealing the empty hiding spot where you found the key. "
                     ELSE "The rug is lifted, revealing a brass key underneath. "
                ELSE "A worn rug covers part of the floor. "
        \* the pieces below are written without the blank that ends them in the
        \* source; a blank separates them, and desc.strip() drops the last one
        safe == IF s.safe_opened
                THEN IF s.bolt_cutter_taken
                     THEN "The safe stands open and empty - you've taken its contents."
                     ELSE "The safe is open, revealing a heavy bolt cutter inside."
                ELSE "A metal safe sits against the wall, securely locked."
        inv  == IF Len(s.inventory) > 0
                THEN " You're carrying: " \o join(", ", s.inventory) \o "."
                ELSE ""
        win  == IF s.escaped THEN " You have successfully escaped the room!" ELSE ""
    IN  WithState(s, [success |-> TRUE,
            message |-> "You stand in a simple room with concrete walls. "
                        \o door \o rug \o safe \o inv \o win,
            won |-> s.escaped])

\* reset_escape_room: game_state = GameState().  Its @mcp.tool decorator is
\* commented out: the function exists but is not offered as a tool.
bb_reset_escape_room(s) ==
    WithState(GameState_init, [success |-> TRUE,
                message |-> "The room resets itself. The door closes, the rug settles back into place, the safe locks, and your inventory empties. You can start your escape attempt again."])

\* impossible_action: random.choice over five responses, i is the one drawn
bb_impossible_action(s, action, i) ==
    Plain(s, [success |-> FALSE, message |->
        CASE i = 1 -> "You try to " \o action \o ", but that's not going to work in this situation."
          [] i = 2 -> "Yikes! You can't " \o action \o " here."
          [] i = 3 -> "Nice try, but " \o action \o " isn't possible right now."
          [] i = 4 -> "You attempt to " \o action \o ", but nothing happens."
          [] i = 5 -> "That's creative, but " \o action \o " won't help you escape."])

(***************************************************************************)
(* game_server.py: three doors, a key behind door 2, a safe with a code.   *)
(***************************************************************************)
gs_GameState_init ==
    [doors |-> [d \in {1, 2, 3} |-> FALSE], key_taken |-> FALSE,
     safe_unlocked |-> FALSE, safe_opened |-> FALSE, has_key |-> FALSE]

\* look_behind_door that answers a repeated call with success
gs_look_behind_door_repeat_ok(s, door_id) ==
    IF door_id \notin {1, 2, 3}
    THEN Plain(s, [success |-> FALSE,
                message |-> "Invalid door number. Must be 1, 2, or 3."])
    ELSE IF s.doors[door_id]
    THEN Plain(s, [success |-> TRUE,
                message |-> "Door " \o ToString(door_id) \o " is already open."])
    ELSE WithState([s EXCEPT !.doors[door_id] = TRUE], [success |-> TRUE,
                message |-> IF door_id = 1
                            THEN "Door 1 swings open with a creak. Nothing behind it but empty darkness."
                            ELSE IF door_id = 2
                            THEN "Door 2 opens to reveal a rusty key lying on the ground behind it!"
                            ELSE "Door 3 creaks open. Just shadows and dust behind it."])

gs_look_behind_door(s, door_id) ==
    IF door_id \notin {1, 2, 3}
    THEN Plain(s, [success |-> FALSE,
                message |-> "Invalid door number. Must be 1, 2, or 3."])
    ELSE IF s.doors[door_id]
    THEN Plain(s, [success |-> FALSE,
                message |-> "Door " \o ToString(door_id) \o " is already open."])
    ELSE WithState([s EXCEPT !.doors[door_id] = TRUE], [success |-> TRUE,
                message |-> IF door_id = 1
                            THEN "Door 1 swings open with a creak. Nothing behind it but empty darkness."
                            ELSE IF door_id = 2
                            THEN "Door 2 opens to reveal a rusty key lying on the ground behind it!"
                            ELSE "Door 3 creaks open. Just shadows and dust behind it."])

gs_take_key(s) ==
    IF s.key_taken
    THEN Plain(s, [success |-> FALSE, message |-> "You already have the key."])
    ELSE IF ~s.doors[2]
    THEN Plain(s, [success |-> FALSE,
                message |-> "You don't see any key. Try looking behind the doors first."])
    ELSE WithState([s EXCEPT !.key_taken = TRUE, !.has_key = TRUE], [success |-> TRUE,
                message |-> "You pick up the rusty key. It feels heavy and cold in your hand."])

\* use_key_on_safe that leaves the key in the lock
gs_use_key_on_safe_consumes(s) ==
    IF ~s.has_key
    THEN Plain(s, [success |-> FALSE, message |-> "You don't have a key to use."])
    ELSE IF s.safe_unlocked
    THEN Plain(s, [success |-> FALSE, message |-> "The safe is already unlocked."])
    ELSE WithState([s EXCEPT !.safe_unlocked = TRUE, !.has_key = FALSE], [success |-> TRUE,
                message |-> "You insert the key into the safe's lock. Click! The safe unlocks and the keypad lights up green. You notice a piece of paper inside with the code: 5274"])

gs_use_key_on_safe(s) ==
    IF ~s.has_key
    THEN Plain(s, [success |-> FALSE, message |-> "You don't have a key to use."])
    ELSE IF s.safe_unlocked
    THEN Plain(s, [success |-> FALSE, message |-> "The safe is already unlocked."])
    ELSE WithState([s EXCEPT !.safe_unlocked = TRUE], [success |-> TRUE,
                message |-> "You insert the key into the safe's lock. Click! The safe unlocks and the keypad lights up green. You notice a piece of paper inside with the code: 5274"])

\* enter_code without the test that the safe is unlocked
gs_enter_code_locked_ok(s, code) ==
    IF s.safe_opened
    THEN Plain(s, [success |-> FALSE, message |-> "The safe is already open!"])
    ELSE IF code = "5274"
    THEN WithState([s EXCEPT !.safe_opened = TRUE], [success |-> TRUE,
                message |-> "SUCCESS! The safe door swings open wide, revealing bright daylight beyond. You've escaped!",
                won |-> TRUE])
    ELSE Plain(s, [success |-> FALSE,
                message |-> "You enter " \o code \o ". The safe beeps and flashes red. Wrong code!"])

\* enter_code that assigns safe_opened from the code on every attempt
gs_enter_code_reassigns(s, code) ==
    IF ~s.safe_unlocked
    THEN Plain(s, [success |-> FALSE,
                message |-> "The safe is still locked. You need to unlock it with a key first."])
    ELSE IF code = "5274"
    THEN WithState([s EXCEPT !.safe_opened = TRUE], [success |-> TRUE,
                message |-> "SUCCESS! The safe door swings open wide, revealing bright daylight beyond. You've escaped!",
                won |-> TRUE])
    ELSE Plain([s EXCEPT !.safe_opened = FALSE], [success |-> FALSE,
                message |-> "You enter " \o code \o ". The safe beeps and flashes red. Wrong code!"])

\* enter_code that tests the code before the safe-opened flag, as server1 does
gs_enter_code_no_open_check(s, code) ==
    IF ~s.safe_unlocked
    THEN Plain(s, [success |-> FALSE,
                message |-> "The safe is still locked. You need to unlock it with a key first."])
    ELSE IF code = "5274"
    THEN WithState([s EXCEPT !.safe_opened = TRUE], [success |-> TRUE,
                message |-> "SUCCESS! The safe door swings open wide, revealing bright daylight beyond. You've escaped!",
                won |-> TRUE])
    ELSE IF s.safe_opened
    THEN Plain(s, [success |-> FALSE, message |-> "The safe is already open!"])
    ELSE Plain(s, [success |-> FALSE,
                message |-> "You enter " \o code \o ". The safe beeps and flashes red. Wrong code!"])

gs_enter_code(s, code) ==
    IF ~s.safe_unlocked
    THEN Plain(s, [success |-> FALSE,
                message |-> "The safe is still locked. You need to unlock it with a key first."])
    ELSE IF s.safe_opened
    THEN Plain(s, [success |-> FALSE, message |-> "The safe is already open!"])
    ELSE IF code = "5274"
    THEN WithState([s EXCEPT !.safe_opened = TRUE], [success |-> TRUE,
                message |-> "SUCCESS! The safe door swings open wide, revealing bright daylight beyond. You've escaped!",
                won |-> TRUE])
    ELSE Plain(s, [success |-> FALSE,
                message |-> "You enter " \o code \o ". The safe beeps and flashes red. Wrong code!"])

\* [x for x in order if keep[x]], for a list `order`
RECURSIVE filter(_, _)
filter(order, keep) ==
    IF Len(order) = 0 THEN <<>>
    ELSE IF keep[Head(order)] THEN <<Head(order)>> \o filter(Tail(order), keep)
    ELSE filter(Tail(order), keep)

gs_describe_room(s) ==
    LET open_doors   == filter(<<1, 2, 3>>, s.doors)
        closed_doors == filter(<<1, 2, 3>>, [d \in {1, 2, 3} |-> ~s.doors[d]])
        names(l)     == [i \in 1..Len(l) |-> ToString(l[i])]
        closed == IF Len(closed_doors) > 0
                  THEN "Doors " \o join(", ", names(closed_doors)) \o " are closed. "
                  ELSE ""
        opened == IF Len(open_doors) > 0
                  THEN "Doors " \o join(", ", names(open_doors)) \o " stand open. "
                  ELSE ""
        key  == IF s.doors[2] /\ ~s.key_taken THEN "A rusty key lies behind door 2. "
                ELSE IF s.has_key THEN "You're holding a rusty key. "
                ELSE ""
        safe == IF s.safe_opened THEN "The safe is wide open, showing your escape route!"
                ELSE IF s.safe_unlocked THEN "The safe is unlocked and ready for a code."
                ELSE "A metal safe sits against the wall, locked tight."
    IN  WithState(s, [success |-> TRUE,
            message |-> "You stand in a dimly lit escape room. "
                        \o closed \o opened \o key \o safe])

\* reset_game: game_state = GameState()
gs_reset_game(s) ==
    WithState(gs_GameState_init, [success |-> TRUE,
                message |-> "Game reset! You're back in the escape room."])

(***************************************************************************)
(* server1.py: the same puzzle, state in a dict, tools return plain text.  *)
(* Tool arguments are strings the handlers strip, so they are modelled as  *)
(* sequences of characters.                                                *)
(***************************************************************************)
Whitespace == {" ", "\t", "\n"}

\* str.strip(): drops leading and trailing whitespace
RECURSIVE lstrip(_)
lstrip(cs) ==
    IF Len(cs) > 0 /\ Head(cs) \in Whitespace THEN lstrip(Tail(cs)) ELSE cs

RECURSIVE rstrip(_)
rstrip(cs) ==
    IF Len(cs) > 0 /\ cs[Len(cs)] \in Whitespace
    THEN rstrip(SubSeq(cs, 1, Len(cs) - 1)) ELSE cs

strip(cs) == rstrip(lstrip(cs))

\* the Python string of a sequence of characters
str(cs) == join("", cs)

s1_game_state_init ==
    [inventory |-> <<>>,
     doors |-> [d \in {"1", "2", "3"} |->
                   [opened |-> FALSE, has_key |-> (d = "2")]],
     safe |-> [locked |-> TRUE, opened |-> FALSE, code |-> "5274"]]

\* a tool of server1 returns a string
Text(s, msg) == [state |-> s, resp |-> [text |-> msg]]

\* iteration order of game_state["doors"]
s1_door_order == <<"1", "2", "3">>

s1_describe_room(s) ==
    LET opened_doors == filter(s1_door_order, [d \in DOMAIN s.doors |-> s.doors[d].opened])
        named == [i \in 1..Len(opened_doors) |-> "door_" \o opened_doors[i]]
    IN  Text(s,
          "You are in a dimly lit room. The air feels thick with mystery. You see three doors clearly labeled: door_1, door_2, and door_3. Against one wall stands a sturdy metal safe with a glowing keypad."
          \o (IF In("key", s.inventory) THEN " You're holding a rusty key in your hand." ELSE "")
          \o (IF s.safe.opened
              THEN " The safe is wide open, revealing bright daylight beyond - your escape route!"
              ELSE IF ~s.safe.locked
              THEN " The safe is unlocked (the keypad glows green), but the door is still closed."
              ELSE " The safe appears to be locked tight.")
          \o (IF Len(opened_doors) > 0
              THEN " You've already opened door(s): " \o join(", ", named) \o "."
              ELSE ""))

s1_look_behind_door(s, input) ==
    LET door_id == str(strip(input)) IN
    IF door_id \notin {"1", "2", "3"}
    THEN Text(s, "ERROR: Invalid door ID '" \o door_id \o "'. Must be exactly '1', '2', or '3'.")
    ELSE LET door == s.doors[door_id] IN
         IF door.opened
         THEN IF door.has_key
              THEN Text(s, "Door_" \o door_id \o " is already open. You can see the rusty key lying behind it.")
              ELSE Text(s, "Door_" \o door_id \o " is already open and empty.")
         ELSE IF door.has_key
         THEN Text([s EXCEPT !.doors[door_id].opened = TRUE],
                   "You pull open door_" \o door_id \o " with a loud creak. Behind it, glinting in the dim light, you spot a rusty old key lying on the ground!")
         ELSE Text([s EXCEPT !.doors[door_id].opened = TRUE],
                   "You pull open door_" \o door_id \o " with a loud creak. Unfortunately, there's nothing behind it - just empty space and shadows.")

\* take_key that leaves has_key set behind the door
s1_take_key_keeps_flag(s) ==
    IF In("key", s.inventory)
    THEN Text(s, "You already have the key in your possession.")
    ELSE LET found == filter(s1_door_order,
                        [d \in DOMAIN s.doors |-> s.doors[d].has_key /\ s.doors[d].opened])
         IN  IF Len(found) > 0
             THEN Text([s EXCEPT !.inventory = Append(@, "key")],
                       "You reach down and pick up the rusty key from behind door_" \o found[1] \o ". It feels heavy and old in your hand.")
             ELSE Text(s, "You don't see any key available to take. You might need to look behind the doors first.")

\* take_key that clears has_key without appending the key to the inventory
s1_take_key_loses_key(s) ==
    IF In("key", s.inventory)
    THEN Text(s, "You already have the key in your possession.")
    ELSE LET found == filter(s1_door_order,
                        [d \in DOMAIN s.doors |-> s.doors[d].has_key /\ s.doors[d].opened])
         IN  IF Len(found) > 0
             THEN Text([s EXCEPT !.doors[found[1]].has_key = FALSE],
                       "You reach down and pick up the rusty key from behind door_" \o found[1] \o ". It feels heavy and old in your hand.")
             ELSE Text(s, "You don't see any key available to take. You might need to look behind the doors first.")

s1_take_key(s) ==
    IF In("key", s.inventory)
    THEN Text(s, "You already have the key in your possession.")
    ELSE LET found == filter(s1_door_order,
                        [d \in DOMAIN s.doors |-> s.doors[d].has_key /\ s.doors[d].opened])
         IN  IF Len(found) > 0
             THEN Text([s EXCEPT !.doors[found[1]].has_key = FALSE,
                                 !.inventory = Append(@, "key")],
                       "You reach down and pick up the rusty key from behind door_" \o found[1] \o ". It feels heavy and old in your hand.")
             ELSE Text(s, "You don't see any key available to take. You might need to look behind the doors first.")

s1_use_key_on_safe(s) ==
    IF ~In("key", s.inventory)
    THEN Text(s, "You don't have a key to use. You need to find and take a key first.")
    ELSE IF ~s.safe.locked
    THEN Text(s, "The safe is already unlocked. The keypad glows green, ready for you to enter a code.")
    ELSE Text([s EXCEPT !.safe.locked = FALSE],
              "You insert the rusty key into a small keyhole on the side of the safe and turn it. *CLICK!* The safe unlocks and the keypad lights up green. You notice a piece of paper taped inside the lock mechanism with numbers written on it: '5274'.")

s1_enter_code(s, input) ==
    LET code == str(strip(input)) IN
    IF s.safe.locked
    THEN Text(s, "The safe is still locked. You need to unlock it with a key before entering a code.")
    ELSE IF code = s.safe.code
    THEN IF ~s.safe.opened
         THEN Text([s EXCEPT !.safe.opened = TRUE],
                   "BEEP BEEP BEEP! You enter the code " \o code \o " on the keypad. The safe door swings open wide with a satisfying *WHOOSH*, revealing bright daylight streaming in from outside. You've found your escape route! Congratulations - you've successfully escaped the room!")
         ELSE Text(s, "You enter the code " \o code \o " again. The keypad beeps happily, but you've already opened the safe and can see your escape route.")
    ELSE Text(s, "You carefully enter the code " \o code \o " on the keypad. *BUZZ* The keypad flashes red and makes an error sound. That's not the right code.")

(***************************************************************************)
(* The image composers.  An image is named by the file it was loaded from; *)
(* "transparent" is the placeholder of a missing file.  A composed image   *)
(* is the stack of its layers, bottom first.                               *)
(***************************************************************************)
\* load_asset: the cached image, else the file's image (then cached), else a
\* transparent placeholder (not cached)
\* load_asset that returns nothing for a missing file
load_asset_missing_none(cache, disk, filename) ==
    IF filename \in DOMAIN cache
    THEN [img |-> cache[filename], cache |-> cache]
    ELSE IF filename \in disk
    THEN [img |-> filename, cache |-> Put(cache, filename, filename)]
    ELSE [img |-> "None", cache |-> cache]

\* load_asset that stores the image in the cache before normalising it
load_asset_caches_raw(cache, disk, filename) ==
    IF filename \in DOMAIN cache
    THEN [img |-> cache[filename], cache |-> cache]
    ELSE IF filename \in disk
    THEN [img |-> filename, cache |-> Put(cache, filename, "raw " \o filename)]
    ELSE [img |-> "transparent", cache |-> cache]

load_asset(cache, disk, filename) ==
    IF filename \in DOMAIN cache
    THEN [img |-> cache[filename], cache |-> cache]
    ELSE IF filename \in disk
    THEN [img |-> filename, cache |-> Put(cache, filename, filename)]
    ELSE [img |-> "transparent", cache |-> cache]

\* a composer that picks the rug variant by the inventory, not by key_taken
bb_layers_rug_by_inventory(s) ==
    <<"room_base.png">>
    \o <<IF s.door_opened
         THEN IF s.bars_cut THEN "door_open_bars_cut.png" ELSE "door_open_bars.png"
         ELSE "door_closed.png">>
    \o <<IF s.rug_lifted
         THEN IF In("key", s.inventory) THEN "rug_lifted_empty.png" ELSE "rug_lifted_key.png"
         ELSE "rug_normal.png">>
    \o <<IF s.safe_opened
         THEN IF s.bolt_cutter_taken THEN "safe_open_empty.png" ELSE "safe_open_tool.png"
         ELSE "safe_closed.png">>
    \o (IF In("key", s.inventory) THEN <<"inventory_key.png">> ELSE <<>>)
    \o (IF In("bolt_cutter", s.inventory) THEN <<"inventory_bolt_cutter.png">> ELSE <<>>)

\* a composer that pastes the inventory icons before the safe layer
bb_layers_icons_before_safe(s) ==
    <<"room_base.png">>
    \o <<IF s.door_opened
         THEN IF s.bars_cut THEN "door_open_bars_cut.png" ELSE "door_open_bars.png"
         ELSE "door_closed.png">>
    \o <<IF s.rug_lifted
         THEN IF s.key_taken THEN "rug_lifted_empty.png" ELSE "rug_lifted_key.png"
         ELSE "rug_normal.png">>
    \o (IF In("key", s.inventory) THEN <<"inventory_key.png">> ELSE <<>>)
    \o (IF In("bolt_cutter", s.inventory) THEN <<"inventory_bolt_cutter.png">> ELSE <<>>)
    \o <<IF s.safe_opened
         THEN IF s.bolt_cutter_taken THEN "safe_open_empty.png" ELSE "safe_open_tool.png"
         ELSE "safe_closed.png">>

\* the files EscapeImageComposer.compose_room_image stacks for state s
bb_layers(s) ==
    <<"room_base.png">>
    \o <<IF s.door_opened
         THEN IF s.bars_cut THEN "door_open_bars_cut.png" ELSE "door_open_bars.png"
         ELSE "door_closed.png">>
    \o <<IF s.rug_lifted
         THEN IF s.key_taken THEN "rug_lifted_empty.png" ELSE "rug_lifted_key.png"
         ELSE "rug_normal.png">>
    \o <<IF s.safe_opened
         THEN IF s.bolt_cutter_taken THEN "safe_open_empty.png" ELSE "safe_open_tool.png"
         ELSE "safe_closed.png">>
    \o (IF In("key", s.inventory) THEN <<"inventory_key.png">> ELSE <<>>)
    \o (IF In("bolt_cutter", s.inventory) THEN <<"inventory_bolt_cutter.png">> ELSE <<>>)

\* the files ImageComposer.compose_room_image of game_server.py stacks
gs_layers(s) ==
    <<"room_base.png">>
    \o [d \in 1..3 |-> IF s.doors[d]
                       THEN "door" \o ToString(d) \o "_open.png"
                       ELSE "door" \o ToString(d) \o "_closed.png"]
    \o (IF s.doors[2] /\ ~s.key_taken THEN <<"key_behind_door2.png">> ELSE <<>>)
    \o <<IF s.safe_opened THEN "safe_open.png"
         ELSE IF s.safe_unlocked THEN "safe_unlocked.png"
         ELSE "safe_locked.png">>
    \o (IF s.has_key THEN <<"inventory_key.png">> ELSE <<>>)

\* load_asset and alpha_composite, layer by layer
RECURSIVE composite(_, _, _)
composite(cache, disk, files) ==
    IF Len(files) = 0
    THEN [stack |-> <<>>, cache |-> cache]
    ELSE LET a    == load_asset(cache, disk, Head(files))
             rest == composite(a.cache, disk, Tail(files))
         IN  [stack |-> <<a.img>> \o rest.stack, cache |-> rest.cache]

\* a composer that starts every composition with an empty cache
compose_room_image_fresh_cache(srv, cache, disk, s) ==
    LET c == composite(<<>>, disk, IF srv = "game_server" THEN gs_layers(s) ELSE bb_layers(s))
    IN  [image |-> <<"white">> \o c.stack, cache |-> c.cache]

\* compose_room_image: the layers pasted onto a white RGB canvas, as base64 PNG
compose_room_image(srv, cache, disk, s) ==
    LET c == composite(cache, disk, IF srv = "game_server" THEN gs_layers(s) ELSE bb_layers(s))
    IN  [image |-> <<"white">> \o c.stack, cache |-> c.cache]

bb_required_assets ==
    {"room_base.png", "door_closed.png", "door_open_bars.png", "door_open_bars_cut.png",
     "rug_normal.png", "rug_lifted_key.png", "rug_lifted_empty.png", "safe_closed.png",
     "safe_open_tool.png", "safe_open_empty.png", "inventory_key.png",
     "inventory_bolt_cutter.png"}

gs_required_assets ==
    {"room_base.png", "door1_closed.png", "door1_open.png", "door2_closed.png",
     "door2_open.png", "door3_closed.png", "door3_open.png", "key_behind_door2.png",
     "safe_locked.png", "safe_unlocked.png", "safe_open.png", "inventory_key.png"}

\* the assets directories considered: complete, empty, and without the base
AssetDirs(srv) ==
    IF srv = "server1" THEN {{}}
    ELSE LET all == IF srv = "game_server" THEN gs_required_assets ELSE bb_required_assets
         IN  {all, {}, all \ {"room_base.png"}}

(***************************************************************************)
(* The state machine.                                                      *)
(***************************************************************************)
\* the scenario of the specification's example, for the behind-bars servers
Scenario ==
    <<"look_under_rug", "take_key", "open_safe", "take_bolt_cutter", "open_door", "cut_bars">>

ResetNames == {"reset_game", "reset_escape_room"}

InitialState(srv) ==
    CASE srv \in BehindBars -> GameState_init
      [] srv = "game_server" -> gs_GameState_init
      [] srv = "server1" -> s1_game_state_init

\* the values of the client's variables before any client has done anything
NoMessage == [raised |-> FALSE, content |-> <<>>]

NoToolCall == [name |-> "none", input |-> NoArg]

NoResult == [none |-> TRUE]

ClientIdle ==
    /\ user_input = "" /\ query = "" /\ queries = 0
    /\ conversation_history = <<>>
    /\ llm_response = NoMessage
    /\ tool_calls = <<>> /\ tool_call = NoToolCall
    /\ mcp_result = NoResult /\ tool_result = NoResult
    /\ issued = <<>>

\* a server with no client program attached
NoClient == client = "none" /\ pc = "none" /\ ClientIdle

Init ==
    /\ server \in Servers
    /\ assets \in AssetDirs(server)
    /\ game_state = InitialState(server)
    /\ asset_cache = <<>>
    /\ pre = InitialState(server)
    /\ call = [name |-> "none", arg |-> NoArg]
    /\ response = [none |-> TRUE]
    /\ progress = 0
    /\ NoClient

\* One tool call: handler result r becomes the new game state; a handler that
\* returned normally composes the image of the new state into its response
\* (server1 has no composer).
Serve(name, arg, r) ==
    /\ game_state' = r.state
    /\ pre' = game_state
    /\ call' = [name |-> name, arg |-> arg]
    /\ IF server = "server1" \/ "raised" \in DOMAIN r.resp
       THEN /\ response' = r.resp
            /\ asset_cache' = asset_cache
       ELSE LET c == compose_room_image(server, asset_cache, assets, r.state)
            IN  /\ response' = Put(r.resp, "image", c.image)
                /\ asset_cache' = c.cache
    /\ progress' = IF name \in ResetNames THEN 0
                   ELSE IF progress >= 0 /\ progress < Len(Scenario)
                           /\ name = Scenario[progress + 1]
                   THEN progress + 1
                   ELSE -1
    /\ UNCHANGED <<server, assets>>

\* a tool call made with no client program in the picture
Do(name, arg, r) == Serve(name, arg, r) /\ UNCHANGED client_vars

\* what the player may say to impossible_action
ActionPhrases == {"do something impossible", "fly away"}

\* primary_action values: the mapped names, the tool's own name, an unknown one
PrimaryActions == action_map \cup {"multiple_actions", "dance"}

FA_open_door == server = "fastapi" /\ Do("open_door", NoArg, fa_open_door(game_state))
FA_look_under_rug == server = "fastapi" /\ Do("look_under_rug", NoArg, fa_look_under_rug(game_state))
FA_take_key == server = "fastapi" /\ Do("take_key", NoArg, fa_take_key(game_state))
FA_open_safe == server = "fastapi" /\ Do("open_safe", NoArg, fa_open_safe(game_state))
FA_take_bolt_cutter == server = "fastapi" /\ Do("take_bolt_cutter", NoArg, fa_take_bolt_cutter(game_state))
FA_cut_bars == server = "fastapi" /\ Do("cut_bars", NoArg, fa_cut_bars(game_state))
FA_use_key_on_door == server = "fastapi" /\ Do("use_key_on_door", NoArg, fa_use_key_on_door(game_state))
FA_use_bolt_cutter_on_door == server = "fastapi" /\ Do("use_bolt_cutter_on_door", NoArg, fa_use_bolt_cutter_on_door(game_state))
FA_give_hint == server = "fastapi" /\ Do("give_hint", NoArg, fa_give_hint(game_state))
FA_impossible_action ==
    /\ server = "fastapi"
    /\ \E a \in ActionPhrases : Do("impossible_action", a, fa_impossible_action(game_state, a))
FA_multiple_actions ==
    /\ server = "fastapi"
    /\ \E p \in PrimaryActions : Do("multiple_actions", p, fa_multiple_actions(game_state, p))
FA_reset_game == server = "fastapi" /\ Do("reset_game", NoArg, fa_reset_game(game_state))

BB_open_door == server = "behind_bars" /\ Do("open_door", NoArg, bb_open_door(game_state))
BB_look_under_rug == server = "behind_bars" /\ Do("look_under_rug", NoArg, bb_look_under_rug(game_state))
BB_take_key == server = "behind_bars" /\ Do("take_key", NoArg, bb_take_key(game_state))
BB_open_safe == server = "behind_bars" /\ Do("open_safe", NoArg, bb_open_safe(game_state))
BB_take_bolt_cutter == server = "behind_bars" /\ Do("take_bolt_cutter", NoArg, bb_take_bolt_cutter(game_state))
BB_cut_bars == server = "behind_bars" /\ Do("cut_bars", NoArg, bb_cut_bars(game_state))
BB_describe_room == server = "behind_bars" /\ Do("describe_room", NoArg, bb_describe_room(game_state))
BB_reset_escape_room == server = "behind_bars" /\ Do("reset_escape_room", NoArg, bb_reset_escape_room(game_state))
BB_impossible_action ==
    /\ server = "behind_bars"
    /\ \E a \in ActionPhrases, i \in 1..5 :
          Do("impossible_action", a, bb_impossible_action(game_state, a, i))

\* door numbers tried on game_server.py: 0 .. MaxDoorId
MaxDoorId == 4

\* codes tried on game_server.py (compared as given)
Codes == {"5274", "0000", "527", " 5274"}

GS_look_behind_door ==
    /\ server = "game_server"
    /\ \E d \in 0..MaxDoorId : Do("look_behind_door", d, gs_look_behind_door(game_state, d))
GS_take_key == server = "game_server" /\ Do("take_key", NoArg, gs_take_key(game_state))
GS_use_key_on_safe == server = "game_server" /\ Do("use_key_on_safe", NoArg, gs_use_key_on_safe(game_state))
GS_enter_code ==
    /\ server = "game_server"
    /\ \E c \in Codes : Do("enter_code", c, gs_enter_code(game_state, c))
GS_describe_room == server = "game_server" /\ Do("describe_room", NoArg, gs_describe_room(game_state))
GS_reset_game == server = "game_server" /\ Do("reset_game", NoArg, gs_reset_game(game_state))

\* door ids and codes tried on server1.py, as typed (each is stripped)
DoorIds == {<<"1">>, <<"2">>, <<"3">>, <<"4">>, <<" ", "2">>, <<"2", "\n">>, <<>>, <<"1", "2">>}

CodeInputs ==
    {<<"5", "2", "7", "4">>, <<" ", "5", "2", "7", "4", " ">>, <<"0", "0", "0", "0">>,
     <<"5", "2", "7">>, <<>>}

S1_describe_room == server = "server1" /\ Do("describe_room", NoArg, s1_describe_room(game_state))
S1_look_behind_door ==
    /\ server = "server1"
    /\ \E d \in DoorIds : Do("look_behind_door", d, s1_look_behind_door(game_state, d))
S1_take_key == server = "server1" /\ Do("take_key", NoArg, s1_take_key(game_state))
S1_use_key_on_safe == server = "server1" /\ Do("use_key_on_safe", NoArg, s1_use_key_on_safe(game_state))
S1_enter_code ==
    /\ server = "server1"
    /\ \E c \in CodeInputs : Do("enter_code", c, s1_enter_code(game_state, c))

Next ==
    \/ FA_open_door \/ FA_look_under_rug \/ FA_take_key \/ FA_open_safe
    \/ FA_take_bolt_cutter \/ FA_cut_bars \/ FA_use_key_on_door
    \/ FA_use_bolt_cutter_on_door \/ FA_give_hint \/ FA_impossible_action
    \/ FA_multiple_actions \/ FA_reset_game
    \/ BB_open_door \/ BB_look_under_rug \/ BB_take_key \/ BB_open_safe
    \/ BB_take_bolt_cutter \/ BB_cut_bars \/ BB_describe_room
    \/ BB_reset_escape_room \/ BB_impossible_action
    \/ GS_look_behind_door \/ GS_take_key \/ GS_use_key_on_safe \/ GS_enter_code
    \/ GS_describe_room \/ GS_reset_game
    \/ S1_describe_room \/ S1_look_behind_door \/ S1_take_key
    \/ S1_use_key_on_safe \/ S1_enter_code

Spec == Init /\ [][Next]_vars

(***************************************************************************)
(* Properties.  `pre`, `call` and `response` describe the last tool call,  *)
(* so a statement about what one call does is a state predicate.           *)
(***************************************************************************)
Called(name) == call.name = name

Succeeded == Has(response, "success", TRUE)

Failed == Has(response, "success", FALSE)

ReportsWin == Has(response, "won", TRUE)

ReturnedNormally == "message" \in DOMAIN response /\ "raised" \notin DOMAIN response

\* the won condition of a game state: escaped (behind bars), safe opened (three doors)
WonIn(s) ==
    CASE server \in BehindBars -> s.escaped
      [] server = "game_server" -> s.safe_opened
      [] server = "server1" -> s.safe.opened

\* the call executed a reset, directly or as the primary action of multiple_actions
ResetExecuted ==
    \/ call.name \in ResetNames
    \/ server = "fastapi" /\ Called("multiple_actions") /\ call.arg = "reset_game"

\* C1: in every reachable state of every server a dependent transition has
\* succeeded only with its prerequisite item held: behind bars, safe_opened
\* implies "key" in inventory and bars_cut implies door_opened and
\* "bolt_cutter" in inventory; in game_server safe_unlocked implies has_key
\* and safe_opened implies safe_unlocked; in server1 an unlocked safe implies
\* "key" in inventory and an opened safe implies it is unlocked.
C1_PrerequisiteHeld ==
    /\ server \in BehindBars =>
          /\ game_state.safe_opened => In("key", game_state.inventory)
          /\ game_state.bars_cut =>
                game_state.door_opened /\ In("bolt_cutter", game_state.inventory)
    /\ server = "game_server" =>
          /\ game_state.safe_unlocked => game_state.has_key
          /\ game_state.safe_opened => game_state.safe_unlocked
    /\ server = "server1" =>
          /\ ~game_state.safe.locked => In("key", game_state.inventory)
          /\ game_state.safe.opened => ~game_state.safe.locked

C1_Witness ==
    /\ server = "behind_bars" /\ Called("cut_bars")
    /\ ~pre.bars_cut /\ game_state.bars_cut /\ game_state.safe_opened

\* C2: in every reachable state a "took item" flag implies the flag that
\* reveals the item: behind bars, key_taken implies rug_lifted and
\* bolt_cutter_taken implies safe_opened (also after auto-collection); in
\* game_server key_taken implies doors[2] open.
C2_TakenImpliesRevealed ==
    /\ server \in BehindBars =>
          /\ game_state.key_taken => game_state.rug_lifted
          /\ game_state.bolt_cutter_taken => game_state.safe_opened
    /\ server = "game_server" => (game_state.key_taken => game_state.doors[2])

C2_Witness ==
    /\ server = "fastapi" /\ Called("cut_bars")
    /\ ~pre.bolt_cutter_taken /\ game_state.bolt_cutter_taken
    /\ game_state.key_taken

\* the last call was made before its prerequisite held
PrerequisiteUnmet ==
    \/ /\ server \in BehindBars
       /\ \/ Called("take_key") /\ ~pre.rug_lifted
          \/ Called("take_bolt_cutter") /\ ~pre.safe_opened
          \/ Called("cut_bars") /\ ~pre.door_opened
    \/ /\ server = "behind_bars"
       /\ \/ Called("open_safe") /\ ~In("key", pre.inventory)
          \/ Called("cut_bars") /\ ~In("bolt_cutter", pre.inventory)
    \/ /\ server = "fastapi"
       /\ \/ Called("open_safe") /\ ~In("key", pre.inventory) /\ ~pre.rug_lifted
          \/ Called("cut_bars") /\ ~In("bolt_cutter", pre.inventory) /\ ~pre.safe_opened
    \/ /\ server = "game_server"
       /\ \/ Called("take_key") /\ ~pre.doors[2]
          \/ Called("use_key_on_safe") /\ ~pre.has_key
          \/ Called("enter_code") /\ ~pre.safe_unlocked

\* C3: an action invoked before its prerequisite holds returns an ordinary
\* response with success=false and without won=true, and does not raise; in
\* particular the terminal action invoked from the initial state fails.
\* (The servers that answer with a response object: server1 answers in text.)
C3_UnmetPrerequisiteFails ==
    PrerequisiteUnmet => ReturnedNormally /\ Failed /\ ~ReportsWin /\ ~WonIn(game_state)

C3_Witness ==
    /\ server = "game_server" /\ Called("enter_code") /\ call.arg = "5274"
    /\ pre = gs_GameState_init /\ Failed

\* C4: every call that returns success=false leaves the game state exactly as
\* it was before the call.
C4_FailureLeavesState == Failed => game_state = pre

\* the last call asked for an effect that was already in place
AlreadyDone ==
    \/ /\ server \in BehindBars
       /\ \/ Called("open_door") /\ pre.door_opened
          \/ Called("look_under_rug") /\ pre.rug_lifted
          \/ Called("take_key") /\ pre.key_taken
          \/ Called("open_safe") /\ pre.safe_opened
          \/ Called("take_bolt_cutter") /\ pre.bolt_cutter_taken
          \/ Called("cut_bars") /\ pre.bars_cut
    \/ /\ server = "game_server"
       /\ \/ Called("look_behind_door") /\ call.arg \in {1, 2, 3} /\ pre.doors[call.arg]
          \/ Called("take_key") /\ pre.key_taken
          \/ Called("use_key_on_safe") /\ pre.safe_unlocked
          \/ Called("enter_code") /\ pre.safe_opened
    \/ /\ server = "server1"
       /\ \/ /\ Called("look_behind_door")
             /\ str(strip(call.arg)) \in {"1", "2", "3"}
             /\ pre.doors[str(strip(call.arg))].opened
          \/ Called("take_key") /\ In("key", pre.inventory)
          \/ Called("use_key_on_safe") /\ ~pre.safe.locked
          \/ Called("enter_code") /\ pre.safe.opened

\* C5: a call whose own effect is already in place is a no-op on the state.
C5_AlreadyDoneIsNoOp == AlreadyDone => game_state = pre

\* C6: the won condition is sticky: once true it stays true after every call
\* of any kind and with any arguments, until a reset is executed.
C6_WonIsSticky ==
    (call.name # "none" /\ WonIn(pre) /\ ~ResetExecuted) => WonIn(game_state)

C6_Witness ==
    /\ server = "game_server" /\ Called("enter_code") /\ call.arg = "0000"
    /\ pre.safe_opened /\ game_state.safe_opened

\* the one action name that wins in each server
TerminalAction == IF server \in BehindBars THEN "cut_bars" ELSE "enter_code"

\* C7 as claimed: only the call of the terminal action name takes the won
\* condition from false to true.
C7_OnlyTerminalNameWins ==
    (~WonIn(pre) /\ WonIn(game_state)) => Called(TerminalAction)

\* C7 as amended: the won condition goes from false to true only in a call of
\* the terminal action, made directly or, in the FastAPI server, through
\* multiple_actions with primary_action = "cut_bars".
C7_OnlyTerminalActionWins ==
    (~WonIn(pre) /\ WonIn(game_state)) =>
        \/ Called(TerminalAction)
        \/ server = "fastapi" /\ Called("multiple_actions") /\ call.arg = "cut_bars"

C7_Witness ==
    /\ server = "fastapi" /\ Called("multiple_actions") /\ call.arg = "cut_bars"
    /\ ~pre.escaped /\ game_state.escaped

\* what the server's reset handler returns when invoked in state s
ResetFrom(s) ==
    CASE server = "fastapi" -> fa_reset_game(s)
      [] server = "behind_bars" -> bb_reset_escape_room(s)
      [] server = "game_server" -> gs_reset_game(s)

\* C8: the reset action can be invoked in every state, returns success=true
\* and leaves the canonical initial state, whatever was executed before.
C8_ResetYieldsInitialState ==
    /\ server # "server1" =>
          /\ Has(ResetFrom(game_state).resp, "success", TRUE)
          /\ ResetFrom(game_state).state = InitialState(server)
    /\ call.name \in ResetNames =>
          /\ Succeeded
          /\ game_state = InitialState(server)
          /\ Has(response, "state", InitialState(server))

C8_Witness ==
    /\ server = "fastapi" /\ Called("reset_game")
    /\ pre.escaped /\ Len(pre.inventory) = 2
    /\ game_state = GameState_init

\* C9: in both behind-bars servers the sequence look_under_rug, take_key,
\* open_safe, take_bolt_cutter, open_door, cut_bars from the initial state
\* succeeds at every step, with rug_lifted after step 1, inventory = {key}
\* after step 2, safe_opened after step 3, inventory = {key, bolt_cutter}
\* after step 4, door_opened after step 5 and won=true on the last step.
C9_ExampleScenario ==
    (server \in BehindBars /\ progress >= 1) =>
        /\ Succeeded
        /\ progress >= 1 => game_state.rug_lifted
        /\ progress = 2 => game_state.inventory = <<"key">>
        /\ progress >= 3 => game_state.safe_opened
        /\ progress = 4 => game_state.inventory = <<"key", "bolt_cutter">>
        /\ progress >= 5 => game_state.door_opened
        /\ progress = 6 => ReportsWin /\ game_state.escaped
                           /\ game_state.inventory = <<"key", "bolt_cutter">>

C9_Witness == server = "behind_bars" /\ progress = 6 /\ Called("cut_bars")

\* state s with the item already collected
Holding(s, item) ==
    IF item = "key"
    THEN [s EXCEPT !.key_taken = TRUE, !.inventory = Append(@, "key")]
    ELSE [s EXCEPT !.bolt_cutter_taken = TRUE, !.inventory = Append(@, "bolt_cutter")]

\* C10: in the FastAPI server open_safe with the key visible but not taken
\* takes the key and opens the safe, and cut_bars with the door open and the
\* bolt cutter visible but not taken takes it, cuts the bars and wins; each
\* message differs from the one returned when the item was already held.
C10_AutoCollect ==
    server = "fastapi" =>
        /\ (Called("open_safe") /\ pre.rug_lifted /\ ~pre.key_taken /\ ~pre.safe_opened) =>
              /\ game_state.key_taken /\ In("key", game_state.inventory)
              /\ game_state.safe_opened /\ Succeeded
              /\ response.message # fa_open_safe(Holding(pre, "key")).resp.message
        /\ (Called("cut_bars") /\ pre.door_opened /\ pre.safe_opened
               /\ ~pre.bolt_cutter_taken) =>
              /\ game_state.bolt_cutter_taken /\ In("bolt_cutter", game_state.inventory)
              /\ game_state.bars_cut /\ game_state.escaped /\ ReportsWin
              /\ response.message # fa_cut_bars(Holding(pre, "bolt_cutter")).resp.message

C10_Witness ==
    /\ server = "fastapi" /\ Called("open_safe")
    /\ pre.rug_lifted /\ ~pre.key_taken /\ ~pre.safe_opened
    /\ game_state.safe_opened

\* what the FastAPI tool `name` returns when called with `arg` in state s
FaCall(name, arg, s) ==
    CASE name = "open_door" -> fa_open_door(s)
      [] name = "look_under_rug" -> fa_look_under_rug(s)
      [] name = "take_key" -> fa_take_key(s)
      [] name = "open_safe" -> fa_open_safe(s)
      [] name = "take_bolt_cutter" -> fa_take_bolt_cutter(s)
      [] name = "cut_bars" -> fa_cut_bars(s)
      [] name = "use_key_on_door" -> fa_use_key_on_door(s)
      [] name = "use_bolt_cutter_on_door" -> fa_use_bolt_cutter_on_door(s)
      [] name = "give_hint" -> fa_give_hint(s)
      [] name = "impossible_action" -> fa_impossible_action(s, arg)
      [] name = "multiple_actions" -> fa_multiple_actions(s, arg)
      [] name = "reset_game" -> fa_reset_game(s)

\* the take action of an item
TakeOf(item) == IF item = "key" THEN "take_key" ELSE "take_bolt_cutter"

\* the last call added `item` to the inventory without being its take action:
\* in the FastAPI server that is a collection by smart_inventory_check
AutoCollected(item) ==
    /\ ~In(item, pre.inventory) /\ In(item, game_state.inventory)
    /\ ~Called(TakeOf(item))
    /\ ~(Called("multiple_actions") /\ call.arg = TakeOf(item))

\* C11: in the FastAPI server, whenever a call adds an item to the inventory
\* through smart_inventory_check, the message it returns differs from the
\* message the same call returns from the state that differs only in that the
\* item was already held.
C11_AutoCollectReported ==
    server = "fastapi" =>
        \A item \in {"key", "bolt_cutter"} :
            (AutoCollected(item) /\ ReturnedNormally) =>
                response.message #
                    FaCall(call.name, call.arg, Holding(pre, item)).resp.message

Digits == {"0", "1", "2", "3", "4", "5", "6", "7", "8", "9"}

\* a string of exactly four digits, as a sequence of characters
FourDigit(cs) == Len(cs) = 4 /\ \A i \in 1..4 : cs[i] \in Digits

DesignatedCode == <<"5", "2", "7", "4">>

\* the texts by which server1 reports the win and a failed code entry
s1_WinText(code) ==
    "BEEP BEEP BEEP! You enter the code " \o code \o " on the keypad. The safe door swings open wide with a satisfying *WHOOSH*, revealing bright daylight streaming in from outside. You've found your escape route! Congratulations - you've successfully escaped the room!"

s1_WrongCodeText(code) ==
    "You carefully enter the code " \o code \o " on the keypad. *BUZZ* The keypad flashes red and makes an error sound. That's not the right code."

s1_LockedText ==
    "The safe is still locked. You need to unlock it with a key before entering a code."

\* C12: in the three-door servers, with the safe unlocked, enter_code with
\* the code "5274" opens the safe and reports the win when the safe is closed,
\* and on every later call changes no state and reports no win; enter_code
\* with any other string of four digits returns a failure result and leaves
\* the won condition as it was, in whatever state it is called.
C12_CodeEntry ==
    /\ (server = "game_server" /\ Called("enter_code")) =>
          /\ (pre.safe_unlocked /\ call.arg = str(DesignatedCode)) =>
                IF pre.safe_opened
                THEN game_state = pre /\ ~ReportsWin
                ELSE game_state.safe_opened /\ Succeeded /\ ReportsWin
          /\ (\E cs \in CodeInputs : FourDigit(cs) /\ cs # DesignatedCode
                                     /\ call.arg = str(cs)) =>
                /\ Failed /\ ~ReportsWin
                /\ game_state.safe_opened = pre.safe_opened
    /\ (server = "server1" /\ Called("enter_code")) =>
          /\ (~pre.safe.locked /\ call.arg = DesignatedCode) =>
                IF pre.safe.opened
                THEN game_state = pre /\ response.text # s1_WinText(str(call.arg))
                ELSE game_state.safe.opened
                     /\ response.text = s1_WinText(str(call.arg))
          /\ (FourDigit(call.arg) /\ call.arg # DesignatedCode) =>
                /\ response.text = IF pre.safe.locked THEN s1_LockedText
                                   ELSE s1_WrongCodeText(str(call.arg))
                /\ game_state.safe.opened = pre.safe.opened

\* the designated code entered a second time, and a wrong code entered into
\* the opened safe
C12_Witness ==
    /\ server = "game_server" /\ Called("enter_code") /\ call.arg = "5274"
    /\ pre.safe_opened /\ Failed

\* the invalid-door results of the two three-door servers
s1_InvalidDoorText(door_id) ==
    "ERROR: Invalid door ID '" \o door_id \o "'. Must be exactly '1', '2', or '3'."

gs_InvalidDoorMessage == "Invalid door number. Must be 1, 2, or 3."

\* C13: look_behind_door rejects every door_id outside {"1","2","3"}
\* (server1.py; {1,2,3} in game_server.py) with the invalid-door result and
\* opens no door; a door_id inside the set opens exactly that door if it is
\* closed and leaves the other doors and all other state unchanged.
C13_DoorIdValidation ==
    /\ (server = "server1" /\ Called("look_behind_door")) =>
          IF str(call.arg) \notin {"1", "2", "3"}
          THEN /\ response.text = s1_InvalidDoorText(str(strip(call.arg)))
               /\ game_state = pre
          ELSE game_state = [pre EXCEPT !.doors[str(call.arg)].opened = TRUE]
    /\ (server = "game_server" /\ Called("look_behind_door")) =>
          IF call.arg \notin {1, 2, 3}
          THEN /\ Failed /\ response.message = gs_InvalidDoorMessage
               /\ game_state = pre
          ELSE game_state = [pre EXCEPT !.doors[call.arg] = TRUE]

BehindBarsFlags ==
    {"door_opened", "rug_lifted", "key_taken", "safe_opened",
     "bolt_cutter_taken", "bars_cut", "escaped"}

\* the flags that are true in game state s.  server1.py keeps the safe's
\* lock and the key's place as `locked` and `has_key`, true in the initial
\* state: the flags counted for it are the doors opened, the lock released
\* and the safe opened (the key held is in its inventory).
TrueFlags(s) ==
    CASE server \in BehindBars -> {f \in BehindBarsFlags : s[f]}
      [] server = "game_server" ->
            {"door_" \o ToString(d) : d \in {e \in {1, 2, 3} : s.doors[e]}}
            \cup {f \in {"key_taken", "safe_unlocked", "safe_opened", "has_key"} : s[f]}
      [] server = "server1" ->
            {"door_" \o d : d \in {e \in {"1", "2", "3"} : s.doors[e].opened}}
            \cup (IF s.safe.locked THEN {} ELSE {"safe_unlocked"})
            \cup (IF s.safe.opened THEN {"safe_opened"} ELSE {})

Inventory(s) == IF server = "game_server" THEN <<>> ELSE s.inventory

IsPrefix(a, b) == Len(a) <= Len(b) /\ a = SubSeq(b, 1, Len(a))

\* how far a game state has advanced
Advance(s) == Cardinality(TrueFlags(s)) + Len(Inventory(s))

\* C14: a call that is not a reset turns no true flag false and removes no
\* item from the inventory, and if it changes the state it strictly grows the
\* flags and items, so that no state that was left is entered again.
C14_ForwardOnly ==
    (call.name # "none" /\ ~ResetExecuted) =>
        /\ TrueFlags(pre) \subseteq TrueFlags(game_state)
        /\ IsPrefix(Inventory(pre), Inventory(game_state))
        /\ game_state # pre => Advance(game_state) > Advance(pre)

C14_Witness ==
    /\ server = "game_server" /\ Called("use_key_on_safe")
    /\ game_state # pre /\ game_state.has_key

\* the items held in game state s (game_server.py records the key in has_key)
Held(s) ==
    IF server = "game_server"
    THEN IF s.has_key THEN {"key"} ELSE {}
    ELSE {s.inventory[i] : i \in 1..Len(s.inventory)}

\* C15: an item is added to the inventory only by the take action of that
\* item requested by the caller (take_key, take_bolt_cutter): a call to any
\* other action adds nothing, in particular open_safe of
\* behind_bars_server.py.
C15_OnlyTakeAddsItem ==
    \A item \in Held(game_state) \ Held(pre) :
        \/ Called(TakeOf(item))
        \/ server = "fastapi" /\ Called("multiple_actions") /\ call.arg = TakeOf(item)

\* the same statement for behind_bars_server.py alone
C15_BehindBarsOnly == server = "behind_bars" => C15_OnlyTakeAddsItem

\* the game state after the tool `name` was called with `arg` in state s
After(name, arg, s) ==
    CASE server = "fastapi" -> FaCall(name, arg, s).state
      [] server = "behind_bars" ->
            (CASE name = "open_door" -> bb_open_door(s)
               [] name = "look_under_rug" -> bb_look_under_rug(s)
               [] name = "take_key" -> bb_take_key(s)
               [] name = "open_safe" -> bb_open_safe(s)
               [] name = "take_bolt_cutter" -> bb_take_bolt_cutter(s)
               [] name = "cut_bars" -> bb_cut_bars(s)).state
      [] server = "game_server" ->
            (CASE name = "look_behind_door" -> gs_look_behind_door(s, arg)
               [] name = "take_key" -> gs_take_key(s)
               [] name = "use_key_on_safe" -> gs_use_key_on_safe(s)
               [] name = "enter_code" -> gs_enter_code(s, arg)).state
      [] server = "server1" ->
            (CASE name = "look_behind_door" -> s1_look_behind_door(s, arg)
               [] name = "take_key" -> s1_take_key(s)
               [] name = "use_key_on_safe" -> s1_use_key_on_safe(s)
               [] name = "enter_code" -> s1_enter_code(s, arg)).state

\* the game state after the calls of `plan`, in order, from state s
RECURSIVE Run(_, _)
Run(plan, s) ==
    IF plan = <<>> THEN s
    ELSE Run(Tail(plan), After(Head(plan).name, Head(plan).arg, s))

\* a sequence of calls that plays the whole game of the server
WinPlan ==
    IF server \in BehindBars
    THEN [i \in 1..Len(Scenario) |-> [name |-> Scenario[i], arg |-> NoArg]]
    ELSE << [name |-> "look_behind_door",
             arg |-> IF server = "server1" THEN <<"2">> ELSE 2],
            [name |-> "take_key", arg |-> NoArg],
            [name |-> "use_key_on_safe", arg |-> NoArg],
            [name |-> "enter_code",
             arg |-> IF server = "server1" THEN DesignatedCode
                     ELSE str(DesignatedCode)] >>

\* C16: no dead ends: from every reachable state of every server a finite
\* sequence of calls reaches the won state, whatever calls, failed or
\* successful, led to that state.
C16_NoDeadEnd == WonIn(Run(WinPlan, game_state))

\* a state reached by a failed call, with the game not yet won
C16_Witness ==
    /\ server = "behind_bars" /\ Called("cut_bars") /\ Failed
    /\ pre.door_opened /\ ~WonIn(game_state)

\* C17: a response carries a won field only on the terminal transition: the
\* field is true and the call changed the won condition from false to true;
\* every other call, open_door, cut_bars and describe_room after the escape
\* included, returns a response without a won field.
C17_WonOnlyOnTerminal ==
    "won" \in DOMAIN response =>
        /\ response.won = TRUE
        /\ ~WonIn(pre) /\ WonIn(game_state)

\* the same statement leaving describe_room aside
C17_ActionsOnly == Called("describe_room") \/ C17_WonOnlyOnTerminal

\* C18: in both behind-bars servers a call whose effect is already in place
\* (open_door, look_under_rug, take_key, open_safe, take_bolt_cutter or
\* cut_bars) returns success=true.
C18_RepeatSucceeds == (server \in BehindBars /\ AlreadyDone) => Succeeded

\* C18, amended: in both behind-bars servers open_door, look_under_rug,
\* open_safe and cut_bars return success=true when their effect is already
\* in place, while take_key with the key taken and take_bolt_cutter with the
\* bolt cutter taken return success=false and change nothing.
C18_RepeatSucceedsExceptTake ==
    (server \in BehindBars /\ AlreadyDone) =>
        IF call.name \in {"take_key", "take_bolt_cutter"}
        THEN Failed /\ game_state = pre
        ELSE Succeeded

C18_Witness ==
    /\ server = "fastapi" /\ Called("take_key") /\ pre.key_taken
    /\ Failed

\* C19: in game_server.py a call whose effect is already in place
\* (look_behind_door on an open door, take_key with the key taken,
\* use_key_on_safe with the safe unlocked, enter_code with the safe opened)
\* returns a normal response with success=false and leaves the state
\* unchanged.
C19_RepeatFails ==
    (server = "game_server" /\ AlreadyDone) =>
        /\ ReturnedNormally /\ Failed
        /\ game_state = pre

C19_Witness ==
    /\ server = "game_server" /\ Called("look_behind_door")
    /\ call.arg = 2 /\ pre.doors[2] /\ Failed

\* C20: multiple_actions of the FastAPI server, for every primary_action (a
\* mapped action, "impossible_action", "multiple_actions" itself or an unknown
\* name), returns a normal response with success and message fields, never
\* an error.
C20_MultipleActionsReturns ==
    (server = "fastapi" /\ Called("multiple_actions")) =>
        /\ "raised" \notin DOMAIN response
        /\ {"success", "message"} \subseteq DOMAIN response

\* the files the server's composer stacks for state s
Layers(s) == IF server = "game_server" THEN gs_layers(s) ELSE bb_layers(s)

\* the asset cache with every file of the assets directory loaded
FullCache == [f \in assets |-> f]

\* the tools whose handler After evaluates
HasAfter ==
    \/ server = "fastapi" /\ call.name # "none"
    \/ server = "behind_bars" /\ call.name \in {Scenario[i] : i \in 1..Len(Scenario)}
    \/ server \in {"game_server", "server1"}
       /\ call.name \in {"look_behind_door", "take_key", "use_key_on_safe", "enter_code"}

\* C21: the composer is a pure function of the game state: for the fixed
\* assets directory the image a call returns is the one compose_room_image
\* yields for the same state from an empty cache, from the cache as it is
\* now and from a full cache, whatever calls came before; and composing the
\* image leaves the game state as the handler set it.
C21_ComposerIsPure ==
    (server # "server1" /\ "image" \in DOMAIN response) =>
        /\ \A cache \in {<<>>, asset_cache, FullCache} :
              response.image = compose_room_image(server, cache, assets, game_state).image
        /\ HasAfter => game_state = After(call.name, call.arg, pre)

\* an image composed when every layer it needs was already cached
C21_Witness ==
    /\ server = "fastapi" /\ Called("give_hint") /\ pre.safe_opened
    /\ "image" \in DOMAIN response /\ assets # {}
    /\ \A i \in 1..Len(Layers(game_state)) : Layers(game_state)[i] \in DOMAIN asset_cache

\* every behind-bars game state whose inventory holds no item twice
BBStates ==
    [door_opened : BOOLEAN, rug_lifted : BOOLEAN, key_taken : BOOLEAN,
     safe_opened : BOOLEAN, bolt_cutter_taken : BOOLEAN, bars_cut : BOOLEAN,
     escaped : BOOLEAN,
     inventory : {<<>>, <<"key">>, <<"bolt_cutter">>, <<"key", "bolt_cutter">>,
                  <<"bolt_cutter", "key">>}]

DoorVariants == {"door_closed.png", "door_open_bars.png", "door_open_bars_cut.png"}

RugVariants == {"rug_normal.png", "rug_lifted_key.png", "rug_lifted_empty.png"}

SafeVariants == {"safe_closed.png", "safe_open_tool.png", "safe_open_empty.png"}

IconOf(item) == IF item = "key" THEN "inventory_key.png" ELSE "inventory_bolt_cutter.png"

\* the layer list L has the order the behind-bars composer is to use for s
FixedOrder(L, s) ==
    /\ Len(L) = 4 + Len(s.inventory)
    /\ L[1] = "room_base.png"
    /\ L[2] \in DoorVariants /\ L[3] \in RugVariants /\ L[4] \in SafeVariants
    /\ \A i \in 5..Len(L) : \E j \in 1..Len(s.inventory) : L[i] = IconOf(s.inventory[j])
    /\ \A j \in 1..Len(s.inventory) : \E i \in 5..Len(L) : L[i] = IconOf(s.inventory[j])
    /\ Len(L) = 6 => L[5] = "inventory_key.png" /\ L[6] = "inventory_bolt_cutter.png"

\* C22: for every state the behind-bars composer stacks room_base, then one
\* door variant, one rug variant, one safe variant, and after them one
\* inventory icon per held item, the key's before the bolt cutter's: 4 layers
\* plus one per held item.  With all assets on disk the returned image is
\* that stack on the white canvas.
C22_LayerOrder ==
    server \in BehindBars =>
        /\ \A s \in BBStates \cup {game_state} : FixedOrder(bb_layers(s), s)
        /\ ("image" \in DOMAIN response /\ assets = bb_required_assets) =>
              response.image = <<"white">> \o bb_layers(game_state)

C22_Witness ==
    /\ server = "behind_bars" /\ assets = bb_required_assets
    /\ "image" \in DOMAIN response /\ Len(response.image) = 7
    /\ game_state.inventory = <<"key", "bolt_cutter">>

RequiredAssets == IF server = "game_server" THEN gs_required_assets ELSE bb_required_assets

\* assets directories with nothing, one file or all but one file missing,
\* and with one file or nothing present
AssetSubsets ==
    {RequiredAssets, {}}
    \cup {RequiredAssets \ {f} : f \in RequiredAssets}
    \cup {{f} : f \in RequiredAssets}

\* image is the white canvas with every file of L in order, a transparent
\* placeholder standing for each file that is not on disk
ComposedFrom(image, L, disk) ==
    /\ Len(image) = 1 + Len(L)
    /\ image[1] = "white"
    /\ \A i \in 1..Len(L) :
          image[i + 1] = IF L[i] \in disk THEN L[i] ELSE "transparent"

\* C23: missing assets never fail a composition: whichever asset files are
\* missing, room_base.png included, compose_room_image completes with a
\* transparent placeholder for each missing file and the other layers in
\* their normal order, and the call that asked for the image returns its
\* normal success/message result.
C23_MissingAssets ==
    server # "server1" =>
        /\ \A disk \in AssetSubsets :
              ComposedFrom(compose_room_image(server, <<>>, disk, game_state).image,
                           Layers(game_state), disk)
        /\ (call.name # "none" /\ "raised" \notin DOMAIN response) =>
              /\ {"success", "message", "image"} \subseteq DOMAIN response
              /\ ComposedFrom(response.image, Layers(game_state), assets)
              /\ server = "fastapi" =>
                    response = Put(FaCall(call.name, call.arg, pre).resp,
                                   "image", response.image)

C23_Witness ==
    /\ server = "game_server" /\ assets = {}
    /\ Called("enter_code") /\ Succeeded /\ ReportsWin
    /\ \A i \in 2..Len(response.image) : response.image[i] = "transparent"

\* C24: the asset cache is filled lazily and never invalidated: in every
\* step, resets included, each cached entry stays with the same image, and a
\* filename enters the cache only as an existing file that the composition
\* of that step loaded; being cached from then on, no file is opened twice.
C24_CacheOnlyGrows ==
    [][ /\ \A f \in DOMAIN asset_cache :
              f \in DOMAIN asset_cache' /\ asset_cache'[f] = asset_cache[f]
        /\ \A f \in (DOMAIN asset_cache') \ (DOMAIN asset_cache) :
              /\ f \in assets /\ asset_cache'[f] = f
              /\ "image" \in DOMAIN response'
              /\ \E i \in 1..Len(Layers(game_state')) : Layers(game_state')[i] = f
      ]_vars

\* a reset executed with assets in the cache
C24_Witness ==
    /\ server = "fastapi" /\ Called("reset_game")
    /\ Cardinality(DOMAIN asset_cache) >= 8

\* C25: region independence in the behind-bars composer: a state that agrees
\* with the current one on (door_opened, bars_cut) gets the same door layer,
\* on (rug_lifted, key_taken) the same rug layer, on (safe_opened,
\* bolt_cutter_taken) the same safe layer, whatever its other flags and its
\* inventory are.
C25_RegionIndependence ==
    server \in BehindBars =>
        \A t \in BBStates :
            LET L == bb_layers(game_state)
                M == bb_layers(t)
            IN  /\ (t.door_opened = game_state.door_opened
                      /\ t.bars_cut = game_state.bars_cut) => M[2] = L[2]
                /\ (t.rug_lifted = game_state.rug_lifted
                      /\ t.key_taken = game_state.key_taken) => M[3] = L[3]
                /\ (t.safe_opened = game_state.safe_opened
                      /\ t.bolt_cutter_taken = game_state.bolt_cutter_taken) => M[4] = L[4]

C25_Witness ==
    /\ server = "fastapi" /\ assets = bb_required_assets
    /\ game_state.rug_lifted /\ game_state.key_taken /\ ~game_state.safe_opened
    /\ "image" \in DOMAIN response /\ response.image[4] = "rug_lifted_empty.png"

\* the game actions of multiple_actions' action map
GameActions == action_map \ {"impossible_action"}

MultipleActionsNotice(primary_action) ==
    "MULTIPLE_ACTIONS_DETECTED: We can only do one thing at a time. I executed '"
    \o primary_action \o "' first. RESULT: "

\* C26: multiple_actions executes exactly one action: for a primary_action
\* that names a game action of its map, the resulting state, success and won
\* are those of one direct call of that action from the same state and the
\* message is that action's message after the MULTIPLE_ACTIONS_DETECTED
\* notice; for a primary_action outside the map the state is unchanged and
\* success=false.
C26_OneActionExecuted ==
    (server = "fastapi" /\ Called("multiple_actions")) =>
        /\ call.arg \in GameActions =>
              LET direct == FaCall(call.arg, NoArg, pre) IN
              /\ game_state = direct.state
              /\ Has(response, "success", direct.resp.success)
              /\ ("won" \in DOMAIN response) = ("won" \in DOMAIN direct.resp)
              /\ "won" \in DOMAIN response => response.won = direct.resp.won
              /\ Has(response, "message",
                     MultipleActionsNotice(call.arg) \o direct.resp.message)
        /\ call.arg \notin action_map => (game_state = pre /\ Failed)

\* multiple_actions naming cut_bars wins as cut_bars does, collecting the tool
C26_Witness ==
    /\ server = "fastapi" /\ Called("multiple_actions") /\ call.arg = "cut_bars"
    /\ ~pre.bolt_cutter_taken /\ ReportsWin /\ game_state.escaped

\* the progression documented in the FastAPI server's start-up log
Progression == <<"open_door", "look_under_rug", "open_safe", "cut_bars">>

\* the game states the progression is to pass through, from the initial one
ProgressionStates ==
    LET p1 == [GameState_init EXCEPT !.door_opened = TRUE]
        p2 == [p1 EXCEPT !.rug_lifted = TRUE]
        p3 == [p2 EXCEPT !.key_taken = TRUE, !.safe_opened = TRUE,
                         !.inventory = <<"key">>]
        p4 == [p3 EXCEPT !.bolt_cutter_taken = TRUE, !.bars_cut = TRUE,
                         !.escaped = TRUE, !.inventory = <<"key", "bolt_cutter">>]
    IN  <<GameState_init, p1, p2, p3, p4>>

\* C27: in the FastAPI server the four calls open_door, look_under_rug,
\* open_safe, cut_bars from the initial state each return success=true and
\* end with escaped true, won=true on the last call and both "key" and
\* "bolt_cutter" in the inventory, with no take_key or take_bolt_cutter call.
C27_FourCallProgression ==
    server = "fastapi" =>
        /\ Run([i \in 1..4 |-> [name |-> Progression[i], arg |-> NoArg]],
               GameState_init) = ProgressionStates[5]
        /\ \A i \in 1..4 :
              (pre = ProgressionStates[i] /\ Called(Progression[i])) =>
                  /\ Succeeded
                  /\ game_state = ProgressionStates[i + 1]
                  /\ i = 4 => (ReportsWin /\ game_state.escaped
                               /\ In("key", game_state.inventory)
                               /\ In("bolt_cutter", game_state.inventory))

C27_Witness ==
    /\ server = "fastapi" /\ Called("cut_bars")
    /\ pre = ProgressionStates[4] /\ game_state = ProgressionStates[5]
    /\ ReportsWin

\* C28: flags and inventory are consistent in every reachable state: in both
\* behind-bars servers key_taken holds exactly when "key" is in the
\* inventory, bolt_cutter_taken exactly when "bolt_cutter" is, and no item
\* occurs twice in the inventory list; in game_server.py key_taken equals
\* has_key.
C28_FlagsMatchInventory ==
    /\ server \in BehindBars =>
          /\ game_state.key_taken = In("key", game_state.inventory)
          /\ game_state.bolt_cutter_taken = In("bolt_cutter", game_state.inventory)
          /\ \A i, j \in 1..Len(game_state.inventory) :
                i # j => game_state.inventory[i] # game_state.inventory[j]
    /\ server = "game_server" => game_state.key_taken = game_state.has_key

\* the key taken by take_key and the bolt cutter collected by cut_bars
C28_Witness ==
    /\ server = "fastapi" /\ Called("cut_bars")
    /\ In("key", pre.inventory) /\ AutoCollected("bolt_cutter")
    /\ game_state.inventory = <<"key", "bolt_cutter">>

\* C29: a win is never reported falsely: a response carries won=true only if
\* the won condition holds in the state at the return (escaped in the
\* behind-bars servers, safe_opened in game_server.py), and in the
\* behind-bars servers escaped is true exactly when bars_cut is.
C29_NoFalseWin ==
    /\ ReportsWin => WonIn(game_state)
    /\ server \in BehindBars => game_state.escaped = game_state.bars_cut

\* open_door reporting the win after the escape
C29_Witness ==
    /\ server = "fastapi" /\ Called("open_door") /\ ReportsWin
    /\ pre.escaped /\ game_state.bars_cut

FreedomHint == "You've already found your way to freedom! The path is clear."

\* the actions a hint of give_hint points to
HintedActions(hint) ==
    CASE hint = "You're in an unfamiliar room. Try exploring what you can see - maybe start with that door or check around the floor."
            -> {"open_door", "look_under_rug"}
      [] hint = "You've discovered something interesting under the rug! Maybe pick it up, then see what's behind that door."
            -> {"take_key"}
      [] hint = "You can see both your obstacle and a potential solution. Pick up what you found and see what it opens."
            -> {"take_key"}
      [] hint = "You have a key, but what's behind that door? Better open it and see what you're dealing with."
            -> {"open_door"}
      [] hint = "The door reveals your challenge, but you'll need tools to solve it. Search the room thoroughly - check under things."
            -> {"look_under_rug"}
      [] hint = "The bars block your exit, but that key must open something in this room. What else has a lock?"
            -> {"open_safe"}
      [] hint = "The safe revealed exactly what you need! Take that tool - it looks perfect for your problem."
            -> {"take_bolt_cutter"}
      [] hint = "You have the perfect tool for those metal bars blocking your escape. Time to put it to work!"
            -> {"cut_bars"}
      [] OTHER -> {}

\* C30: give_hint of the FastAPI server is always actionable: in every
\* reachable state with the bars not cut the hint it returns points to an
\* action that, invoked next, returns success=true and changes the state; in
\* every reachable state with the bars cut the hint is the one saying that
\* the way to freedom is already found.
C30_HintIsActionable ==
    server = "fastapi" =>
        LET hint == fa_give_hint(game_state).resp.message IN
        /\ Called("give_hint") => Has(response, "message", hint)
        /\ IF game_state.bars_cut
           THEN hint = FreedomHint
           ELSE /\ HintedActions(hint) # {}
                /\ \A a \in HintedActions(hint) :
                      /\ FaCall(a, NoArg, game_state).resp.success
                      /\ FaCall(a, NoArg, game_state).state # game_state

\* the hint given with the door closed and the bolt cutter already held
C30_Witness ==
    /\ server = "fastapi" /\ Called("give_hint")
    /\ ~game_state.door_opened /\ game_state.bolt_cutter_taken
    /\ HintedActions(response.message) = {"open_door"}

\* the read-only and meta tools
ReadOnlyTools == {"describe_room", "give_hint", "impossible_action"}

\* C31: the read-only and meta actions leave the whole game state unchanged:
\* describe_room (in the servers that have it), give_hint and
\* impossible_action with any action string change no flag and no inventory
\* entry, and impossible_action returns success=false.
C31_ReadOnlyTools ==
    /\ call.name \in ReadOnlyTools => game_state = pre
    /\ (server = "fastapi" /\ Called("multiple_actions")
          /\ call.arg \in {"give_hint", "impossible_action"}) => game_state = pre
    /\ Called("impossible_action") => Failed

\* give_hint called with an item lying visible, which auto-collect would take
C31_Witness ==
    /\ server = "fastapi" /\ Called("give_hint")
    /\ pre.rug_lifted /\ ~pre.key_taken /\ game_state = pre

\* C32: key conservation in server1.py: in every reachable state exactly one
\* of doors["2"].has_key and "key" in inventory is true, doors "1" and "3"
\* have no key, the inventory does not hold the key twice, and take_key takes
\* the key only when door "2" is open and the key is still behind it.
C32_KeyConservation ==
    server = "server1" =>
        /\ game_state.doors["2"].has_key # In("key", game_state.inventory)
        /\ ~game_state.doors["1"].has_key /\ ~game_state.doors["3"].has_key
        /\ Len(game_state.inventory) <= 1
        /\ (Called("take_key") /\ game_state # pre) =>
              /\ pre.doors["2"].opened /\ pre.doors["2"].has_key
              /\ game_state.inventory = <<"key">>
        /\ (Called("take_key") /\ ~(pre.doors["2"].opened /\ pre.doors["2"].has_key)) =>
              response.text \in
                 {"You already have the key in your possession.",
                  "You don't see any key available to take. You might need to look behind the doors first."}

C32_Witness ==
    /\ server = "server1" /\ Called("take_key")
    /\ pre.doors["2"].has_key /\ In("key", game_state.inventory)

\* ---------------------------------------------------------------------
\* The clients.  TwoLLMGameClient (client/game_client.py) talks to the
\* FastAPI server over HTTP; MCPClient (client/client.py, and the older
\* client-old/client.py with the same process_query) spawns a three-door
\* server over stdio.  The LLM and the MCP transport are the environment:
\* each reply and each delivery is a choice over what they can produce.
\* ---------------------------------------------------------------------

\* calls of process_query before the run is cut off
MaxQueries == 2

\* most tool_use blocks in one LLM reply
MaxToolUses == 2

\* a text block and a tool_use block of an LLM reply
TextBlock == [type |-> "text"]

ToolUse(i, t) == [type |-> "tool_use", id |-> i, name |-> t.name, input |-> t.input]

\* the tool_use blocks of a reply's content, in order
IsToolUse(b) == b.type = "tool_use"

tool_uses(content) == SelectSeq(content, IsToolUse)

\* what the user types at the two-LLM client's prompt
GCInputs == {"restart", "cut the bars"}

\* the tools the tool-selecting LLM is seen to pick
GCTools ==
    { [name |-> "look_under_rug", input |-> NoArg],
      [name |-> "cut_bars", input |-> NoArg],
      [name |-> "reset_game", input |-> NoArg],
      [name |-> "multiple_actions", input |-> "cut_bars"] }

\* the replies of the tool-selecting LLM: the call raising, or a content
\* list of text and tool_use blocks with at most MaxToolUses tool_use blocks
GCReplies ==
    LET blocks == {TextBlock} \cup {ToolUse(0, t) : t \in GCTools}
        contents == UNION {[1..n -> blocks] : n \in 0..(MaxToolUses + 1)}
    IN  {[raised |-> TRUE, content |-> <<>>]}
        \cup {[raised |-> FALSE, content |-> c] :
                c \in {c \in contents : Len(tool_uses(c)) <= MaxToolUses}}

impossible_fallback(q) == [name |-> "impossible_action", input |-> q]

\* a variant of select_tool that returns the last tool_use block
select_tool_last(reply, q) ==
    LET uses == tool_uses(reply.content)
    IN  IF reply.raised \/ uses = <<>> THEN impossible_fallback(q)
        ELSE [name |-> uses[Len(uses)].name, input |-> uses[Len(uses)].input]

\* select_tool after list_tools: the first tool_use block of the reply,
\* impossible_action(query) when there is none or the LLM call raised
select_tool(reply, q) ==
    LET uses == tool_uses(reply.content)
    IN  IF reply.raised \/ uses = <<>> THEN impossible_fallback(q)
        ELSE [name |-> uses[1].name, input |-> uses[1].input]

\* what call_tool can deliver: it raises, or returns a content list that is
\* empty or starts with a block of one of these shapes
JsonKinds == {"structured_data", "structured_text", "text_json"}

DeliveryKinds ==
    JsonKinds \cup {"raise", "empty", "unknown", "text_not_json", "text_json_not_dict",
                    "structured_unparseable", "image_data", "image_no_data"}

Get(d, k, default) == IF k \in DOMAIN d THEN d[k] ELSE default

execute_tool_failure ==
    [message |-> "Something went wrong during tool execution", image_data |-> <<>>,
     success |-> FALSE, won |-> FALSE, is_multiple_actions |-> FALSE]

\* result_data as execute_tool builds it from the first content block
result_data(m) ==
    CASE m.kind \in JsonKinds -> m.data
      [] m.kind = "structured_unparseable" ->
            [message |-> "Server returned structured type but no data/parseable text",
             success |-> FALSE]
      [] m.kind = "text_not_json" -> [message |-> "not json", success |-> FALSE]
      [] m.kind = "image_data" ->
            [message |-> "Image received.", image |-> <<"image">>, success |-> TRUE]
      [] m.kind = "image_no_data" ->
            [message |-> "Image received, but data missing.", success |-> TRUE]
      [] m.kind = "unknown" ->
            [message |-> "Unknown content type string received", success |-> FALSE]
      [] m.kind = "empty" ->
            [message |-> "Server returned empty response.", success |-> FALSE]

formatted_result(tc, d, won_default) ==
    LET f == [message |-> Get(d, "message", "No message from tool."),
              image_data |-> Get(d, "image", <<>>),
              success |-> Get(d, "success", TRUE),
              won |-> Get(d, "won", won_default),
              is_multiple_actions |-> FALSE]
    IN  IF tc.name = "multiple_actions"
        THEN Put(Put(f, "is_multiple_actions", TRUE), "primary_action", tc.input)
        ELSE f

\* a variant of execute_tool whose won defaults to true, as success does
execute_tool_won_default_true(tc, m) ==
    IF m.kind \in {"raise", "text_json_not_dict"} THEN execute_tool_failure
    ELSE formatted_result(tc, result_data(m), TRUE)

\* execute_tool given what call_tool delivered: a raise, and the
\* AttributeError of .get on parsed JSON that is no dict, end in the
\* except branch
execute_tool(tc, m) ==
    IF m.kind \in {"raise", "text_json_not_dict"} THEN execute_tool_failure
    ELSE formatted_result(tc, result_data(m), FALSE)

\* an entry of the log of tool calls: what was called, and whether the call
\* reached the server
Issue(tc, served) == [name |-> tc.name, input |-> tc.input, served |-> served]

\* the server as a client finds it: nothing called yet
ServerIdle ==
    /\ asset_cache = <<>>
    /\ pre = game_state
    /\ call = [name |-> "none", arg |-> NoArg]
    /\ response = [none |-> TRUE]
    /\ progress = IF game_state = InitialState(server) THEN 0 ELSE -1

\* The two-LLM client connects to a FastAPI server that is already running,
\* so the game may be anywhere along its progression; the stdio client
\* spawns its server, which starts in the initial state and is described
\* once before the first prompt.
ClientInit ==
    /\ client \in {"game_client", "client"}
    /\ server = IF client = "game_client" THEN "fastapi" ELSE "server1"
    /\ assets = IF client = "game_client" THEN bb_required_assets ELSE {}
    /\ game_state \in IF client = "game_client"
                      THEN {ProgressionStates[i] : i \in 1..Len(ProgressionStates)}
                      ELSE {InitialState(server)}
    /\ ServerIdle
    /\ pc = IF client = "game_client" THEN "idle" ELSE "start"
    /\ ClientIdle

\* the locals of process_query, gone when it returns
Returned ==
    /\ llm_response' = NoMessage
    /\ tool_calls' = <<>>
    /\ tool_call' = NoToolCall
    /\ mcp_result' = NoResult
    /\ tool_result' = NoResult

\* TwoLLMGameClient.chat_loop reads a line and calls process_query, with
\* "reset the game" for 'restart'; select_tool begins with list_tools,
\* which is outside its try: when it raises, process_query raises and the
\* chat loop swallows the exception.
GC_chat_loop ==
    /\ client = "game_client" /\ pc = "idle" /\ queries < MaxQueries
    /\ \E u \in GCInputs, listed \in BOOLEAN :
          /\ user_input' = u
          /\ query' = IF u = "restart" THEN "reset the game" ELSE u
          /\ pc' = IF listed THEN "select_tool" ELSE "idle"
    /\ queries' = queries + 1
    /\ issued' = <<>>
    /\ UNCHANGED <<server_vars, client, conversation_history, llm_response,
                   tool_calls, tool_call, mcp_result, tool_result>>

\* the first LLM call and the extraction of the tool call
GC_select_tool ==
    /\ client = "game_client" /\ pc = "select_tool"
    /\ \E reply \in GCReplies :
          /\ llm_response' = reply
          /\ tool_call' = select_tool(reply, query)
    /\ pc' = "execute_tool"
    /\ UNCHANGED <<server_vars, client, user_input, query, queries,
                   conversation_history, tool_calls, mcp_result, tool_result, issued>>

\* execute_tool: one call_tool, which fails before reaching the server or
\* is served and delivered in one of DeliveryKinds; a response the server
\* raised instead of returning is never delivered as its JSON
GC_execute_tool ==
    /\ client = "game_client" /\ pc = "execute_tool"
    /\ \E k \in DeliveryKinds :
          LET r == FaCall(tool_call.name, tool_call.input, game_state)
          IN  /\ (k \in JsonKinds) => "raised" \notin DOMAIN r.resp
              /\ issued' = Append(issued, Issue(tool_call, k # "raise"))
              /\ IF k = "raise"
                 THEN UNCHANGED server_vars
                 ELSE Serve(tool_call.name, tool_call.input, r)
              /\ mcp_result' = [kind |-> k,
                                data |-> IF k \in JsonKinds THEN response' ELSE NoResult]
              /\ tool_result' = execute_tool(tool_call, mcp_result')
    /\ pc' = "enhance_response"
    /\ UNCHANGED <<client, user_input, query, queries, conversation_history,
                   llm_response, tool_calls, tool_call>>

\* enhance_response only rewords the message (or keeps it when the second
\* LLM call raises); process_query returns and the loop prompts again
GC_enhance_response ==
    /\ client = "game_client" /\ pc = "enhance_response"
    /\ pc' = "idle"
    /\ issued' = <<>>
    /\ Returned
    /\ UNCHANGED <<server_vars, client, user_input, query, queries, conversation_history>>

\* server1.py's tools by name
S1Call(name, arg, s) ==
    CASE name = "describe_room" -> s1_describe_room(s)
      [] name = "look_behind_door" -> s1_look_behind_door(s, arg)
      [] name = "take_key" -> s1_take_key(s)
      [] name = "use_key_on_safe" -> s1_use_key_on_safe(s)
      [] name = "enter_code" -> s1_enter_code(s, arg)

\* what the user types at the stdio client's prompt
MCInputs == {"restart", "look behind door 2"}

\* the tools the stdio client's LLM is seen to pick, the input being the
\* door_id where there is one
MCTools ==
    { [name |-> "describe_room", input |-> <<>>],
      [name |-> "look_behind_door", input |-> <<"2">>] }

\* messages of conversation_history: a role and a list of content blocks
\* (a plain string content is one text block)
Message(role, content) == [role |-> role, content |-> content]

ToolResult(i) == [type |-> "tool_result", id |-> i]

\* the ids of the blocks of one type in a message
Ids(msg, type) == {msg.content[i].id : i \in {j \in 1..Len(msg.content) : msg.content[j].type = type}}

RECURSIVE ToolUseCount(_)
ToolUseCount(h) ==
    IF h = <<>> THEN 0
    ELSE Len(tool_uses(Head(h).content)) + ToolUseCount(Tail(h))

\* the replies of the LLM to a request carrying history h: the call
\* raising, or optional text and at most MaxToolUses tool_use blocks, each
\* with an id of its own
MCReplies(h) ==
    LET base == ToolUseCount(h)
        picks == UNION {[1..n -> MCTools] : n \in 0..MaxToolUses}
    IN  {[raised |-> TRUE, content |-> <<>>]}
        \cup {[raised |-> FALSE,
               content |-> (IF text THEN <<TextBlock>> ELSE <<>>)
                           \o [i \in 1..Len(p) |-> ToolUse(base + i, p[i])]] :
                text \in BOOLEAN, p \in picks}

\* the head of process_query: the query is appended to the history, then
\* list_tools is called outside the try, so its raising ends the query
process_query_begin(h, q, listed) ==
    /\ query' = q
    /\ conversation_history' = Append(h, Message("user", <<TextBlock>>))
    /\ pc' = IF listed THEN "request" ELSE "idle"
    /\ queries' = queries + 1
    /\ issued' = <<>>
    /\ UNCHANGED <<server_vars, client, llm_response, tool_calls, tool_call,
                   mcp_result, tool_result>>

\* MCPClient.chat_loop starts with a description of the room
MC_chat_loop_start ==
    /\ client = "client" /\ pc = "start"
    /\ user_input' = user_input
    /\ \E listed \in BOOLEAN :
          process_query_begin(conversation_history, "describe the room", listed)

\* MCPClient.chat_loop reads a line; 'restart' clears the history and asks
\* for a description of the room, anything else is the query
MC_chat_loop ==
    /\ client = "client" /\ pc = "idle" /\ queries < MaxQueries
    /\ \E u \in MCInputs, listed \in BOOLEAN :
          /\ user_input' = u
          /\ IF u = "restart"
             THEN process_query_begin(<<>>, "describe the room", listed)
             ELSE process_query_begin(conversation_history, u, listed)

\* the request to the LLM with the whole history, and the recording of its
\* reply: one assistant message holding the text and every tool_use block;
\* a raise here is caught by the outer except, which records an error text
MC_request ==
    /\ client = "client" /\ pc = "request"
    /\ \E reply \in MCReplies(conversation_history) :
          LET uses == tool_uses(reply.content)
          IN  /\ conversation_history' =
                    IF reply.raised
                    THEN Append(conversation_history, Message("assistant", <<TextBlock>>))
                    ELSE IF reply.content # <<>>
                    THEN Append(conversation_history, Message("assistant", reply.content))
                    ELSE conversation_history
              /\ IF uses = <<>>
                 THEN pc' = "idle" /\ Returned
                 ELSE /\ pc' = "call_tool"
                      /\ llm_response' = reply
                      /\ tool_calls' = uses
                      /\ UNCHANGED <<tool_call, mcp_result, tool_result>>
    /\ UNCHANGED <<server_vars, client, user_input, query, queries, issued>>

\* where the tool loop goes once the current tool_use block is dealt with
LoopOn ==
    /\ tool_calls' = Tail(tool_calls)
    /\ IF Tail(tool_calls) = <<>>
       THEN /\ pc' = "idle"
            /\ llm_response' = NoMessage
       ELSE /\ pc' = "call_tool"
            /\ llm_response' = llm_response

\* one pass of `for tool_call in tool_calls` up to the follow-up request:
\* call_tool is served and its result recorded as a tool_result message, or
\* it raises and the inner except only adds to the printed text
MC_call_tool ==
    /\ client = "client" /\ pc = "call_tool"
    /\ LET tc == Head(tool_calls)
       IN  \E ok \in BOOLEAN :
              /\ issued' = Append(issued, Issue(tc, ok))
              /\ IF ok
                 THEN /\ Serve(tc.name, tc.input, S1Call(tc.name, tc.input, game_state))
                      /\ conversation_history' =
                            Append(conversation_history, Message("user", <<ToolResult(tc.id)>>))
                      /\ pc' = "follow_up"
                      /\ UNCHANGED <<llm_response, tool_calls>>
                 ELSE /\ UNCHANGED <<server_vars, conversation_history>>
                      /\ LoopOn
    /\ UNCHANGED <<client, user_input, query, queries, tool_call, mcp_result, tool_result>>

\* the follow-up request with the whole history; only its text is kept, and
\* a raise is caught by the inner except
MC_follow_up ==
    /\ client = "client" /\ pc = "follow_up"
    /\ \E outcome \in {"text", "no_text", "raise"} :
          conversation_history' =
              IF outcome = "text"
              THEN Append(conversation_history, Message("assistant", <<TextBlock>>))
              ELSE conversation_history
    /\ LoopOn
    /\ UNCHANGED <<server_vars, client, user_input, query, queries, tool_call,
                   mcp_result, tool_result, issued>>

ClientNext ==
    \/ GC_chat_loop \/ GC_select_tool \/ GC_execute_tool \/ GC_enhance_response
    \/ MC_chat_loop_start \/ MC_chat_loop \/ MC_request \/ MC_call_tool \/ MC_follow_up

ClientSpec == ClientInit /\ [][ClientNext]_vars

\* C33: in the two-LLM client, once the tool-selecting LLM has been asked,
\* process_query issues exactly one tool call for the query: the first
\* tool_use block of the reply if there is one, and impossible_action with
\* the raw query as its argument when the reply holds no tool_use block or
\* the LLM call raised; no call is issued before, and the server executes
\* that call and no other.
C33_OneToolCallPerQuery ==
    client = "game_client" =>
        /\ pc \in {"select_tool", "execute_tool"} => issued = <<>>
        /\ pc = "enhance_response" =>
              LET uses == tool_uses(llm_response.content)
              IN  /\ Len(issued) = 1
                  /\ IF ~llm_response.raised /\ uses # <<>>
                     THEN /\ issued[1].name = uses[1].name
                          /\ issued[1].input = uses[1].input
                     ELSE /\ issued[1].name = "impossible_action"
                          /\ issued[1].input = query
                  /\ issued[1].served =>
                        call = [name |-> issued[1].name, arg |-> issued[1].input]

C33_Witness ==
    /\ client = "game_client" /\ pc = "enhance_response"
    /\ Len(tool_uses(llm_response.content)) = 2
    /\ tool_uses(llm_response.content)[1].name = "reset_game"
    /\ tool_uses(llm_response.content)[2].name = "cut_bars"
    /\ Len(issued) = 1 /\ issued[1].served /\ Called("reset_game")

\* C34: execute_tool of the two-LLM client always returns a result with all
\* its keys; when call_tool raised, or the content was empty, of an unknown
\* type, or text that is not JSON, the result has success=false and
\* won=false; and won is true in the result only if the response the server
\* sent carried won=true.
C34_ExecuteToolIsSafe ==
    (client = "game_client" /\ pc = "enhance_response") =>
        /\ {"message", "image_data", "success", "won", "is_multiple_actions"}
              \subseteq DOMAIN tool_result
        /\ mcp_result.kind \in {"raise", "empty", "unknown", "text_not_json"} =>
              (tool_result.success = FALSE /\ tool_result.won = FALSE)
        /\ tool_result.won \in BOOLEAN
        /\ tool_result.won =>
              /\ mcp_result.kind \in JsonKinds
              /\ Has(mcp_result.data, "won", TRUE)
              /\ Has(response, "won", TRUE)
              /\ game_state.escaped

C34_Witness ==
    /\ client = "game_client" /\ pc = "enhance_response"
    /\ mcp_result.kind = "text_json"
    /\ Called("cut_bars") /\ ~pre.escaped
    /\ tool_result.won /\ tool_result.success

\* the calls of the current query that reached the server
Served == SelectSeq(issued, LAMBDA c : c.served)

\* C35: in the stdio clients process_query executes at most one tool call
\* against the game server for a user query, whatever number of tool_use
\* blocks the LLM reply contains.
C35_OneActionPerQuery == client = "client" => Len(Served) <= 1

\* every tool_use block of an assistant message is answered by a
\* tool_result with the same id in the user message that follows it
WellFormed(h) ==
    \A i \in 1..Len(h) :
        (h[i].role = "assistant" /\ Ids(h[i], "tool_use") # {}) =>
            /\ i < Len(h)
            /\ h[i + 1].role = "user"
            /\ Ids(h[i], "tool_use") \subseteq Ids(h[i + 1], "tool_result")

\* C36: in the stdio client the conversation history is well-formed
\* whenever a request is sent to the LLM: every tool_use block recorded in
\* an assistant message is answered by a tool_result with the same id in
\* the user message that follows it, also after call_tool raised and when
\* one reply held several tool_use blocks.
C36_HistoryWellFormed ==
    (client = "client" /\ pc \in {"request", "follow_up"}) =>
        WellFormed(conversation_history)

\* C37: once a client has handled the user's 'restart', the server's game
\* state is the initial state, whatever it was before and whatever the LLM
\* answered.
C37_RestartResets ==
    (client # "none" /\ pc = "idle" /\ user_input = "restart") =>
        game_state = InitialState(server)

====
